---------------------------- MODULE Spec2Model ----------------------------
(* A model of github.com/lvkeliang/httpws: the WebSocket frame codec, the   *)
(* message loop of an upgraded connection with its RWMutex, the connection  *)
(* store and the accept loop.                                               *)
EXTENDS Integers, Naturals, Sequences, FiniteSets, TLC

(***************************************************************************)
(* Bounds of the model.                                                    *)
(***************************************************************************)
\* the peer sends at most MaxFrames frames before its stream ends
MaxFrames == 3
\* the peer's last frame may lose up to MaxCut trailing bytes
MaxCut == 2
\* goroutines that use one Conn's Set and Get, and the calls each makes
NumGoroutines == 2
MaxCalls == 2
\* the values stored are 1..MaxValue
MaxValue == 2
\* the calls of Set and Get a sequential series has in all
MaxSeqCalls == 4
\* connections the listener accepts
MaxConns == 2
\* the payloads of the round trip start at a byte of 0..MaxSeed
MaxSeed == 1
\* a crafted frame has a payload of up to MaxPayload bytes
MaxPayload == 5
\* goroutines that write frames to one Conn, and the calls they make in all
NumWriters == 2
MaxWrites == 3

(***************************************************************************)
(* Constants of server.go.                                                 *)
(***************************************************************************)
WebSocketFrameOpCodeText == 1
WebSocketFrameOpCodeBinary == 2
WebSocketFrameOpCodeClose == 8
WebSocketFrameOpCodePing == 9
WebSocketFrameOpCodePong == 10
\* 1 << 7, the FIN bit of byte 0 and the MASK bit of byte 1
WebSocketFrameFinBit == 128
WebSocketFrameMaskBit == 128
\* math.MaxUint16
MaxUint16 == 65535
\* 1<<63 - 1 as an int64, its eight bytes from the highest
WebSocketMaxPayloadLen == <<127, 255, 255, 255, 255, 255, 255, 255>>

NoErr == "nil"
EOF == "EOF"
ErrUnexpectedEOF == "unexpected EOF"
ErrNotWebSocket == "not a websocket connection"
ErrClosed == "use of closed network connection"
ErrLenOutOfRange == "panic: makeslice: len out of range"
ErrPayloadTooLarge == "payload length exceeds limit"
\* what a reader over a prefix of the stream reports when it runs dry
Short == "short"

(***************************************************************************)
(* Bytes and the bit operators of Go on them.                              *)
(***************************************************************************)
RECURSIVE BitOr(_, _)
BitOr(a, b) ==
    IF a = 0 THEN b
    ELSE IF b = 0 THEN a
    ELSE (IF a % 2 = 1 \/ b % 2 = 1 THEN 1 ELSE 0) + 2 * BitOr(a \div 2, b \div 2)

RECURSIVE BitXor(_, _)
BitXor(a, b) ==
    IF a = 0 THEN b
    ELSE IF b = 0 THEN a
    ELSE ((a + b) % 2) + 2 * BitXor(a \div 2, b \div 2)

Drop(s, n) == SubSeq(s, n + 1, Len(s))
Take(s, n) == SubSeq(s, 1, n)

(***************************************************************************)
(* The encoder of WriteWebSocketMessage: the bytes of buf when it is       *)
(* handed to Conn.Write.  A payload of up to 2^31 bytes is covered; the    *)
(* fourth tier (uint64) needs more.                                         *)
(***************************************************************************)
LengthField(payloadLen) ==
    IF payloadLen < 126
    THEN <<payloadLen>>
    ELSE IF payloadLen <= MaxUint16
    THEN <<126, payloadLen \div 256, payloadLen % 256>>
    ELSE <<127, (payloadLen \div 16777216) % 256, (payloadLen \div 65536) % 256,
                (payloadLen \div 256) % 256, payloadLen % 256>>

FrameBytes(opCode, payload) ==
    <<BitOr(WebSocketFrameFinBit, opCode % 256)>> \o LengthField(Len(payload)) \o payload

(***************************************************************************)
(* io.ReadFull over the bytes left: nil when want bytes are there (also    *)
(* when want is 0), the reader's own error when none is, and               *)
(* io.ErrUnexpectedEOF when the reader ends with io.EOF part of the way.   *)
(***************************************************************************)
ReadFullErr(have, enough, e) ==
    IF enough THEN NoErr
    ELSE IF have = 0 THEN e
    ELSE IF e = EOF THEN ErrUnexpectedEOF ELSE e

FrameFail(err, used) ==
    [fin |-> FALSE, op |-> 0, data |-> <<>>, err |-> err, used |-> used]

\* Unmask with the mask key taken one byte further on
UnmaskShifted(payload, mask) ==
    [i \in 1..Len(payload) |-> BitXor(payload[i], mask[(i % 4) + 1])]

\* payload[i] ^= mask[i%4], indices from 0
Unmask(payload, mask) ==
    [i \in 1..Len(payload) |-> BitXor(payload[i], mask[((i - 1) % 4) + 1])]

\* a > b for two byte sequences of one length, read as unsigned numbers
RECURSIVE BytesGreater(_, _)
BytesGreater(a, b) ==
    IF a = <<>> THEN FALSE
    ELSE IF Head(a) # Head(b) THEN Head(a) > Head(b)
    ELSE BytesGreater(Tail(a), Tail(b))

\* a > b for two int64 given by their eight bytes (two's complement)
Int64Greater(a, b) ==
    IF (a[1] >= 128) # (b[1] >= 128) THEN b[1] >= 128
    ELSE BytesGreater(a, b)

(***************************************************************************)
(* readWebSocketFrame on a reader that holds the bytes s and then reports  *)
(* the error e.  used is the number of bytes taken from the reader.  The   *)
(* 64-bit length is kept as its eight bytes: it is negative as an int64    *)
(* when the first byte has its top bit set, make panics on it when it is   *)
(* negative or 2^48 and more (the first two bytes), and it is a length the *)
(* model can hold when the first five bytes are 0.                         *)
(***************************************************************************)
readWebSocketFrame(s, e) ==
    LET n == Len(s) IN
    IF n < 1 THEN FrameFail(e, n)
    ELSE IF n < 2 THEN FrameFail(e, n)
    ELSE
    LET fin == s[1] >= WebSocketFrameFinBit
        opCode == s[1] % 16
        masked == s[2] >= WebSocketFrameMaskBit
        len7 == s[2] % 128
    IN
    IF len7 = 126 /\ n < 4 THEN FrameFail(e, n)
    ELSE IF len7 = 127 /\ n < 10 THEN FrameFail(ReadFullErr(n - 2, FALSE, e), n)
    ELSE
    LET hdr == IF len7 = 126 THEN 4 ELSE IF len7 = 127 THEN 10 ELSE 2
        negative == len7 = 127 /\ (s[3] # 0 \/ s[4] # 0)
        huge == len7 = 127 /\ \E i \in 3..7 : s[i] # 0
        payloadLen == IF len7 = 126 THEN s[3] * 256 + s[4]
                      ELSE IF len7 = 127 THEN s[8] * 65536 + s[9] * 256 + s[10]
                      ELSE len7
        maskLen == IF masked THEN 4 ELSE 0
        int64Len == IF len7 = 127 THEN SubSeq(s, 3, 10)
                    ELSE <<0, 0, 0, 0, 0, 0, payloadLen \div 256, payloadLen % 256>>
    IN
    IF Int64Greater(int64Len, WebSocketMaxPayloadLen)
    THEN FrameFail(ErrPayloadTooLarge, hdr)
    ELSE IF masked /\ n < hdr + 4 THEN FrameFail(ReadFullErr(n - hdr, FALSE, e), n)
    ELSE IF negative THEN FrameFail(ErrLenOutOfRange, hdr + maskLen)
    ELSE IF huge \/ n < hdr + maskLen + payloadLen
    THEN FrameFail(ReadFullErr(n - hdr - maskLen, FALSE, e), n)
    ELSE
    LET raw == SubSeq(s, hdr + maskLen + 1, hdr + maskLen + payloadLen)
        mask == SubSeq(s, hdr + 1, hdr + 4)
    IN [fin |-> fin, op |-> opCode,
        data |-> IF masked THEN Unmask(raw, mask) ELSE raw,
        err |-> NoErr, used |-> hdr + maskLen + payloadLen]

(***************************************************************************)
(* The peer of an upgraded connection: the frames it may send, and the     *)
(* bytes of a frame on the wire (7-bit length, not masked).                *)
(***************************************************************************)
PeerDataOps == {0, WebSocketFrameOpCodeText, WebSocketFrameOpCodeBinary}

\* the payload the peer puts in a frame: one or two bytes, told apart by the opcode
PeerPayload(op) ==
    IF op \in {WebSocketFrameOpCodeText, WebSocketFrameOpCodePong} THEN <<8, 9>>
    ELSE IF op = WebSocketFrameOpCodeClose THEN <<>>
    ELSE <<7>>

PeerFrames ==
    {[fin |-> fin, op |-> op, data |-> PeerPayload(op)] : fin \in BOOLEAN, op \in PeerDataOps}
    \cup {[fin |-> TRUE, op |-> op, data |-> PeerPayload(op)] :
             op \in {WebSocketFrameOpCodePing, WebSocketFrameOpCodePong,
                     WebSocketFrameOpCodeClose}}

PeerFrameBytes(f) ==
    <<(IF f.fin THEN WebSocketFrameFinBit ELSE 0) + f.op, Len(f.data)>> \o f.data

RECURSIVE PeerStreamBytes(_)
PeerStreamBytes(fs) ==
    IF fs = <<>> THEN <<>> ELSE PeerFrameBytes(Head(fs)) \o PeerStreamBytes(Tail(fs))

PeerStreams == UNION {[1..k -> PeerFrames] : k \in 0..MaxFrames}

\* the error the transport reports once the peer's bytes are used up
Endings == {EOF, "i/o timeout", "connection reset by peer"}
\* no read has met the end of the peer's bytes yet
Open == "open"

VARIABLES
    wire,       \* bytes of the peer not yet read from c.Conn
    ending,     \* the error c.Conn.Read reports after them, once a read has met it
    closed,     \* c.Conn.Close() has been called
    out,        \* the byte slices handed to c.Conn.Write, in order
    websocket,  \* c.Data["websocket"]
    mu,         \* c.mu: w, the exclusive lock is held; r, the number of read locks
    stack,      \* the call stack of the connection's goroutine
    readLog,    \* the frames the current or last ReadWebSocketMessage decoded
    readRet,    \* what that ReadWebSocketMessage returned, once it has
    pings,      \* the payloads of the ping frames decoded so far
    lastRet     \* the call that returned last, with its results

wsVars == <<wire, ending, closed, out, websocket, mu, stack, readLog, readRet, pings,
           lastRet>>

\* one Conn used by several goroutines through Set and Get
VARIABLES
    Data,       \* c.Data: 0 for nil, or the place of a map in maps
    maps,       \* the maps made so far; a key not in a map holds Absent
    smu,        \* c.mu of that Conn
    gor,        \* what each goroutine is doing
    setsDone,   \* the <<key, value>> of the Set calls that have returned
    getsDone    \* the results of the Get calls that have returned

storeVars == <<Data, maps, smu, gor, setsDone, getsDone>>

\* the accept loop of ListenAndServe and the goroutines it starts
VARIABLES
    cConn,      \* c.Conn of the one Conn the loop shares: a connection, 0 before the first
    cMessage,   \* c.Message of it: the connection whose request it was parsed from, 0 for nil
    conns,      \* the accepted connections: what the peer sent, what was read, written, closed
    served,     \* the goroutine started for each accepted connection
    touched     \* what each goroutine did to which connection

serveVars == <<cConn, cMessage, conns, served, touched>>

\* one frame through WriteWebSocketMessage and back through readWebSocketFrame
VARIABLES
    frameIn,    \* the opcode and payload given to WriteWebSocketMessage
    frameWire,  \* the bytes it wrote
    frameOut,   \* what readWebSocketFrame made of them
    codecPc     \* "start", "written", "read"

codecVars == <<frameIn, frameWire, frameOut, codecPc>>

\* several goroutines that call WriteWebSocketMessage on one Conn
VARIABLES
    writers,    \* what each goroutine is doing, and the bytes of its frame
    wmu,        \* c.mu of that Conn: the goroutine that holds the exclusive lock, or 0
    wWebsocket, \* c.Data["websocket"] of that Conn
    transport   \* the bytes c.Conn has sent, each with the goroutine that wrote it

writeVars == <<writers, wmu, wWebsocket, transport>>

\* one call of UpgradeToWebSocket
VARIABLES
    upMessage,  \* c.Message: NoMessage for nil, or the start line and the headers
    upConn,     \* how many bytes c.Conn.Write takes before it fails, or Healthy
    upOut,      \* what c.Conn.Write has sent
    upFlag,     \* c.Data["websocket"]
    upErr,      \* what UpgradeToWebSocket returned
    upPc        \* "idle", "done"

upgradeVars == <<upMessage, upConn, upOut, upFlag, upErr, upPc>>

\* one call of NewMessage
VARIABLES
    Req,        \* the buffer given to NewMessage
    allocOk,    \* whether the runtime has the memory for a body of gigabytes
    parsed,     \* what NewMessage returned
    parsePc     \* "idle", "done"

parseVars == <<Req, allocOk, parsed, parsePc>>

\* one call of ReadFormData
VARIABLES
    formMessage, \* the message it is called on: its Content-Type header and its Body
    formed,      \* what ReadFormData returned
    formPc       \* "idle", "done"

formVars == <<formMessage, formed, formPc>>

\* Router.HandleFunc, Router.Serve and the handlers Chain builds
VARIABLES
    routes,     \* the calls of HandleFunc the program makes: method, pattern, middlewares
    nreg,       \* how many of them have been made
    rules,      \* r.rules: the handler Chain built, under "METHOD pattern"
    reqLine,    \* c.Message.StartLine of the request
    connData,   \* c.Data of the Conn given to Serve: 0 for nil, or the place of a map in rheap
    rstack,     \* the stages that are running: the closure, the place in its body, its copy of c.Data
    rheap,      \* the maps made so far
    rlog,       \* what the handler and the stages did, in order
    rout,       \* what was written to c.Conn
    rPc         \* "idle", "register", "run", "done", "panic"

routeVars == <<routes, nreg, rules, reqLine, connData, rstack, rheap, rlog, rout, rPc>>

\* Conn.WriteResponse called by several goroutines on one Conn
VARIABLES
    responders, \* per goroutine: where it is in WriteResponse, its arguments, buf, err
    respMu,     \* c.mu: 0 when free, else the goroutine holding it exclusively
    respConn    \* the calls of c.Conn.Write, in order: the buffer handed over, the bytes sent

respVars == <<responders, respMu, respConn>>

\* one goroutine in ReadWebSocketMessage, others in the functions that take c.mu exclusively
VARIABLES
    cmu,       \* c.mu: w, the goroutine holding it exclusively or 0; r, the read locks held
    reading,   \* the reader: where it is in ReadWebSocketMessage, and the calls it has made
    callers,   \* per other goroutine: the function it calls and where it is in it
    critical,  \* the critical sections run so far: who, which function, and where the reader was
    inbox      \* whether bytes of the peer wait on the transport

lockVars == <<cmu, reading, callers, critical, inbox>>

vars == <<wsVars, storeVars, serveVars, codecVars, writeVars, upgradeVars, parseVars, formVars, routeVars, respVars, lockVars>>


(***************************************************************************)
(* The goroutine of one upgraded connection.  A stack frame holds the      *)
(* function, the place in it, and its arguments, locals and results:       *)
(* opCode and payload (arguments of WriteWebSocketMessage, locals and      *)
(* results of ReadWebSocketMessage), err (argument of WebSocketHandleError,*)
(* result of the others), buf (the bytes held by the bufio.Reader of       *)
(* ReadWebSocketMessage).  A frame below the top waits at a call.          *)
(***************************************************************************)
Frame(fn, pc, opCode, payload, err) ==
    [fn |-> fn, pc |-> pc, opCode |-> opCode, payload |-> payload, err |-> err,
     buf |-> <<>>]

Top == stack[Len(stack)]
SetTop(f) == [stack EXCEPT ![Len(stack)] = f]
Returning(f, opCode, payload, err) ==
    [f EXCEPT !.pc = "ret", !.opCode = opCode, !.payload = payload, !.err = err]

\* the frame a call pushes, by the caller's place
CallSites ==
    {<<"handleWebSocket", "read">>, <<"handleWebSocket", "write">>,
     <<"handleWebSocket", "herr">>, <<"ReadWebSocketMessage", "ping">>,
     <<"CloseWebSocket", "write">>, <<"CloseWebSocket", "read">>,
     <<"WebSocketHandleError", "close">>}

Callee(f) ==
    CASE f.fn = "handleWebSocket" /\ f.pc = "read" ->
            Frame("ReadWebSocketMessage", "rlock", 0, <<>>, NoErr)
      [] f.fn = "handleWebSocket" /\ f.pc = "write" ->
            Frame("WriteWebSocketMessage", "lock", f.opCode, f.payload, NoErr)
      [] f.fn = "handleWebSocket" /\ f.pc = "herr" ->
            Frame("WebSocketHandleError", "close", 0, <<>>, f.err)
      [] f.fn = "ReadWebSocketMessage" /\ f.pc = "ping" ->
            Frame("WriteWebSocketMessage", "lock", WebSocketFrameOpCodePong, <<>>, NoErr)
      [] f.fn = "CloseWebSocket" /\ f.pc = "write" ->
            Frame("WriteWebSocketMessage", "lock", WebSocketFrameOpCodeClose, <<>>, NoErr)
      [] f.fn = "CloseWebSocket" /\ f.pc = "read" ->
            Frame("ReadWebSocketMessage", "rlock", 0, <<>>, NoErr)
      [] f.fn = "WebSocketHandleError" /\ f.pc = "close" ->
            Frame("CloseWebSocket", "lock", 0, <<>>, NoErr)

\* the caller's frame once the call it waits at has returned r
Resume(f, r) ==
    CASE f.fn = "handleWebSocket" /\ f.pc = "read" ->
            IF r.err # NoErr
            THEN [f EXCEPT !.pc = "herr", !.err = r.err]
            ELSE [f EXCEPT !.pc = "write", !.opCode = r.opCode, !.payload = r.payload]
      [] f.fn = "handleWebSocket" /\ f.pc = "write" ->
            IF r.err # NoErr
            THEN [f EXCEPT !.pc = "herr", !.err = r.err]
            ELSE [f EXCEPT !.pc = "read"]
      [] f.fn = "handleWebSocket" /\ f.pc = "herr" ->
            [f EXCEPT !.pc = "done"]
      [] f.fn = "ReadWebSocketMessage" /\ f.pc = "ping" ->
            IF r.err # NoErr
            THEN Returning(f, 0, <<>>, r.err)
            ELSE [f EXCEPT !.pc = "loop"]
      [] f.fn = "CloseWebSocket" /\ f.pc = "write" ->
            IF r.err # NoErr
            THEN Returning(f, 0, <<>>, r.err)
            ELSE [f EXCEPT !.pc = "read"]
      [] f.fn = "CloseWebSocket" /\ f.pc = "read" ->
            IF r.err # NoErr
            THEN Returning(f, 0, <<>>, r.err)
            ELSE IF r.opCode = WebSocketFrameOpCodeClose
            THEN [f EXCEPT !.pc = "close"]
            ELSE f
      [] f.fn = "WebSocketHandleError" /\ f.pc = "close" ->
            Returning(f, 0, <<>>, NoErr)

\* c.mu after the deferred Unlock or RUnlock of the function that returns
Unlocked(fn) ==
    CASE fn = "ReadWebSocketMessage" -> [mu EXCEPT !.r = mu.r - 1]
      [] fn \in {"WriteWebSocketMessage", "CloseWebSocket"} -> [mu EXCEPT !.w = FALSE]
      [] OTHER -> mu

\* ReadDispatch with "payload = data" for "payload = append(payload, data...)"
ReadDispatchOverwrite(dec, opCode, payload) ==
    IF dec.err # NoErr /\ dec.err # EOF
    THEN [next |-> "ret", opCode |-> 0, payload |-> <<>>, err |-> dec.err]
    ELSE IF dec.op = WebSocketFrameOpCodeClose
    THEN [next |-> "ret", opCode |-> dec.op, payload |-> <<>>, err |-> EOF]
    ELSE IF dec.op = WebSocketFrameOpCodePing
    THEN [next |-> "ping", opCode |-> opCode, payload |-> payload, err |-> NoErr]
    ELSE IF dec.op = WebSocketFrameOpCodePong
    THEN [next |-> "loop", opCode |-> opCode, payload |-> payload, err |-> NoErr]
    ELSE [next |-> IF dec.fin THEN "ret" ELSE "loop",
          opCode |-> IF opCode = 0 THEN dec.op ELSE opCode,
          payload |-> dec.data,
          err |-> NoErr]

\* ReadDispatch without the test for a pong frame
ReadDispatchPongKept(dec, opCode, payload) ==
    IF dec.err # NoErr /\ dec.err # EOF
    THEN [next |-> "ret", opCode |-> 0, payload |-> <<>>, err |-> dec.err]
    ELSE IF dec.op = WebSocketFrameOpCodeClose
    THEN [next |-> "ret", opCode |-> dec.op, payload |-> <<>>, err |-> EOF]
    ELSE IF dec.op = WebSocketFrameOpCodePing
    THEN [next |-> "ping", opCode |-> opCode, payload |-> payload, err |-> NoErr]
    ELSE [next |-> IF dec.fin THEN "ret" ELSE "loop",
          opCode |-> IF opCode = 0 THEN dec.op ELSE opCode,
          payload |-> payload \o dec.data,
          err |-> NoErr]

\* ReadDispatch with "return op, payload, io.EOF" for "return op, nil, io.EOF"
ReadDispatchCloseKeeps(dec, opCode, payload) ==
    IF dec.err # NoErr /\ dec.err # EOF
    THEN [next |-> "ret", opCode |-> 0, payload |-> <<>>, err |-> dec.err]
    ELSE IF dec.op = WebSocketFrameOpCodeClose
    THEN [next |-> "ret", opCode |-> dec.op, payload |-> payload, err |-> EOF]
    ELSE IF dec.op = WebSocketFrameOpCodePing
    THEN [next |-> "ping", opCode |-> opCode, payload |-> payload, err |-> NoErr]
    ELSE IF dec.op = WebSocketFrameOpCodePong
    THEN [next |-> "loop", opCode |-> opCode, payload |-> payload, err |-> NoErr]
    ELSE [next |-> IF dec.fin THEN "ret" ELSE "loop",
          opCode |-> IF opCode = 0 THEN dec.op ELSE opCode,
          payload |-> payload \o dec.data,
          err |-> NoErr]

(***************************************************************************)
(* The loop body of ReadWebSocketMessage after readWebSocketFrame returned *)
(* dec: what the function does next, with its locals or its results.       *)
(***************************************************************************)
ReadDispatch(dec, opCode, payload) ==
    IF dec.err # NoErr /\ dec.err # EOF
    THEN [next |-> "ret", opCode |-> 0, payload |-> <<>>, err |-> dec.err]
    ELSE IF dec.op = WebSocketFrameOpCodeClose
    THEN [next |-> "ret", opCode |-> dec.op, payload |-> <<>>, err |-> EOF]
    ELSE IF dec.op = WebSocketFrameOpCodePing
    THEN [next |-> "ping", opCode |-> opCode, payload |-> payload, err |-> NoErr]
    ELSE IF dec.op = WebSocketFrameOpCodePong
    THEN [next |-> "loop", opCode |-> opCode, payload |-> payload, err |-> NoErr]
    ELSE [next |-> IF dec.fin THEN "ret" ELSE "loop",
          opCode |-> IF opCode = 0 THEN dec.op ELSE opCode,
          payload |-> payload \o dec.data,
          err |-> NoErr]

\* the log keeps one entry more than the peer can send frames, and one more
MaxLog == MaxFrames + 2
Logged(log, dec) == IF Len(log) < MaxLog THEN Append(log, dec) ELSE log

NoRet == [fn |-> "", opCode |-> 0, payload |-> <<>>, err |-> NoErr]
Running == [done |-> FALSE, opCode |-> 0, payload |-> <<>>, err |-> NoErr]

StoreIdle ==
    /\ Data = 0
    /\ maps = <<>>
    /\ smu = [w |-> FALSE, r |-> 0]
    /\ gor = <<>>
    /\ setsDone = {}
    /\ getsDone = {}

ServeIdle ==
    /\ cConn = 0
    /\ cMessage = 0
    /\ conns = <<>>
    /\ served = <<>>
    /\ touched = {}

CodecIdle ==
    /\ frameIn = [opCode |-> 0, payload |-> <<>>]
    /\ frameWire = <<>>
    /\ frameOut = FrameFail(NoErr, 0)
    /\ codecPc = "idle"

\* no goroutine has been started to write
WriteIdle ==
    /\ writers = <<>>
    /\ wmu = 0
    /\ wWebsocket = FALSE
    /\ transport = <<>>

NoMessage == [StartLine |-> <<>>, Headers |-> <<>>, nil |-> TRUE]
Healthy == -1

\* no request has come for an upgrade
UpgradeIdle ==
    /\ upMessage = NoMessage
    /\ upConn = Healthy
    /\ upOut = <<>>
    /\ upFlag = FALSE
    /\ upErr = NoErr
    /\ upPc = "idle"

\* the nil *Message
NilMessage == [nil |-> TRUE, StartLine |-> <<>>, Headers |-> <<>>, Body |-> <<>>]
NoResult == [m |-> NilMessage, err |-> NoErr]

\* no buffer has been given to NewMessage
ParseIdle ==
    /\ Req = <<>>
    /\ allocOk = FALSE
    /\ parsed = NoResult
    /\ parsePc = "idle"

\* ReadFormData has returned nothing yet
NoForm == [nil |-> TRUE, result |-> <<>>, err |-> NoErr]

\* no message has been given to ReadFormData
FormIdle ==
    /\ formMessage = [hasType |-> FALSE, ContentType |-> <<>>, Body |-> <<>>]
    /\ formed = NoForm
    /\ formPc = "idle"

\* no router has been made
RouteIdle ==
    /\ routes = <<>>
    /\ nreg = 0
    /\ rules = <<>>
    /\ reqLine = <<>>
    /\ connData = 0
    /\ rstack = <<>>
    /\ rheap = <<>>
    /\ rlog = <<>>
    /\ rout = <<>>
    /\ rPc = "idle"

\* no goroutine writes a response
RespIdle ==
    /\ responders = <<>>
    /\ respMu = 0
    /\ respConn = <<>>

\* no goroutine uses the lock
LockIdle ==
    /\ cmu = [w |-> 0, r |-> 0]
    /\ reading = <<>>
    /\ callers = <<>>
    /\ critical = <<>>
    /\ inbox = FALSE

Init ==
    /\ StoreIdle /\ ServeIdle /\ CodecIdle /\ WriteIdle /\ UpgradeIdle /\ ParseIdle /\ FormIdle /\ RouteIdle /\ RespIdle /\ LockIdle
    /\ \E fs \in PeerStreams, cut \in 0..MaxCut :
          /\ cut <= Len(PeerStreamBytes(fs))
          /\ wire = Take(PeerStreamBytes(fs), Len(PeerStreamBytes(fs)) - cut)
    /\ ending = Open
    /\ closed = FALSE
    /\ out = <<>>
    /\ websocket = TRUE
    /\ mu = [w |-> FALSE, r |-> 0]
    /\ stack = <<Frame("handleWebSocket", "read", 0, <<>>, NoErr)>>
    /\ readLog = <<>>
    /\ readRet = Running
    /\ pings = <<>>
    /\ lastRet = NoRet

Call ==
    /\ <<Top.fn, Top.pc>> \in CallSites
    /\ stack' = Append(stack, Callee(Top))
    /\ UNCHANGED <<wire, ending, closed, out, websocket, mu, readLog, readRet, pings, lastRet>>
    /\ UNCHANGED <<storeVars, serveVars, codecVars, writeVars, upgradeVars, parseVars, formVars, routeVars, respVars, lockVars>>

Return ==
    /\ Len(stack) > 1
    /\ Top.pc = "ret"
    /\ LET caller == stack[Len(stack) - 1] IN
          stack' = [i \in 1..(Len(stack) - 1) |->
                       IF i = Len(stack) - 1 THEN Resume(caller, Top) ELSE stack[i]]
    /\ mu' = Unlocked(Top.fn)
    /\ lastRet' = [fn |-> Top.fn, opCode |-> Top.opCode, payload |-> Top.payload,
                   err |-> Top.err]
    /\ readRet' = IF Top.fn = "ReadWebSocketMessage"
                  THEN [done |-> TRUE, opCode |-> Top.opCode, payload |-> Top.payload,
                        err |-> Top.err]
                  ELSE readRet
    /\ UNCHANGED <<wire, ending, closed, out, websocket, readLog, pings>>
    /\ UNCHANGED <<storeVars, serveVars, codecVars, writeVars, upgradeVars, parseVars, formVars, routeVars, respVars, lockVars>>

\* c.mu.Lock(): waits until no lock of either kind is held
Lock ==
    /\ Top.pc = "lock"
    /\ ~mu.w /\ mu.r = 0
    /\ mu' = [mu EXCEPT !.w = TRUE]
    /\ stack' = SetTop([Top EXCEPT !.pc = "body"])
    /\ UNCHANGED <<wire, ending, closed, out, websocket, readLog, readRet, pings, lastRet>>
    /\ UNCHANGED <<storeVars, serveVars, codecVars, writeVars, upgradeVars, parseVars, formVars, routeVars, respVars, lockVars>>

\* c.mu.RLock(): waits until the exclusive lock is free
RLock ==
    /\ Top.pc = "rlock"
    /\ ~mu.w
    /\ mu' = [mu EXCEPT !.r = mu.r + 1]
    /\ stack' = SetTop([Top EXCEPT !.pc = "check"])
    /\ UNCHANGED <<wire, ending, closed, out, websocket, readLog, readRet, pings, lastRet>>
    /\ UNCHANGED <<storeVars, serveVars, codecVars, writeVars, upgradeVars, parseVars, formVars, routeVars, respVars, lockVars>>

\* ReadCheck without the IsWebSocket test
ReadCheckNoTest ==
    /\ Top.fn = "ReadWebSocketMessage" /\ Top.pc = "check"
    /\ stack' = SetTop([Top EXCEPT !.pc = "loop", !.buf = <<>>])
    /\ readLog' = <<>>
    /\ readRet' = Running
    /\ UNCHANGED <<wire, ending, closed, out, websocket, mu, pings, lastRet>>
    /\ UNCHANGED <<storeVars, serveVars, codecVars, writeVars, upgradeVars, parseVars, formVars, routeVars, respVars, lockVars>>

ReadCheck ==
    /\ Top.fn = "ReadWebSocketMessage" /\ Top.pc = "check"
    /\ stack' = SetTop(IF websocket
                       THEN [Top EXCEPT !.pc = "loop", !.buf = <<>>]
                       ELSE Returning(Top, 0, <<>>, ErrNotWebSocket))
    /\ readLog' = <<>>
    /\ readRet' = Running
    /\ UNCHANGED <<wire, ending, closed, out, websocket, mu, pings, lastRet>>
    /\ UNCHANGED <<storeVars, serveVars, codecVars, writeVars, upgradeVars, parseVars, formVars, routeVars, respVars, lockVars>>

Whole(s) == readWebSocketFrame(s, Short).err # Short

(***************************************************************************)
(* The bufio.Reader holds no whole frame and reads from c.Conn.  The reads *)
(* that complete one frame are taken as one step: n bytes, which complete  *)
(* the frame and may go beyond it, or all the bytes there are.             *)
(***************************************************************************)
Fill ==
    /\ Top.fn = "ReadWebSocketMessage" /\ Top.pc = "loop"
    /\ ~Whole(Top.buf)
    /\ ~closed
    /\ \E n \in 1..Len(wire) :
          /\ Whole(Top.buf \o Take(wire, n)) \/ n = Len(wire)
          /\ stack' = SetTop([Top EXCEPT !.buf = Top.buf \o Take(wire, n)])
          /\ wire' = Drop(wire, n)
    /\ UNCHANGED <<ending, closed, out, websocket, mu, readLog, readRet, pings, lastRet>>
    /\ UNCHANGED <<storeVars, serveVars, codecVars, writeVars, upgradeVars, parseVars, formVars, routeVars, respVars, lockVars>>

\* one readWebSocketFrame and the rest of the loop body
ReadFrame ==
    /\ Top.fn = "ReadWebSocketMessage" /\ Top.pc = "loop"
    /\ Whole(Top.buf) \/ closed \/ wire = <<>>
    /\ \E e \in IF ~Whole(Top.buf) /\ ~closed /\ ending = Open THEN Endings ELSE {ending} :
       /\ ending' = e
       /\ LET dec == IF Whole(Top.buf) THEN readWebSocketFrame(Top.buf, Short)
                     ELSE readWebSocketFrame(Top.buf, IF closed THEN ErrClosed ELSE e)
              d == ReadDispatch(dec, Top.opCode, Top.payload)
          IN
          /\ stack' = SetTop([Top EXCEPT !.pc = d.next, !.opCode = d.opCode,
                                         !.payload = d.payload, !.err = d.err,
                                         !.buf = Drop(Top.buf, dec.used)])
          /\ readLog' = Logged(readLog, dec)
          /\ pings' = IF dec.err = NoErr /\ dec.op = WebSocketFrameOpCodePing
                      THEN Append(pings, dec.data) ELSE pings
    /\ UNCHANGED <<wire, closed, out, websocket, mu, readRet, lastRet>>
    /\ UNCHANGED <<storeVars, serveVars, codecVars, writeVars, upgradeVars, parseVars, formVars, routeVars, respVars, lockVars>>

\* WriteWebSocketMessage once it holds the lock
WriteBody ==
    /\ Top.fn = "WriteWebSocketMessage" /\ Top.pc = "body"
    /\ IF ~websocket
       THEN /\ stack' = SetTop(Returning(Top, Top.opCode, Top.payload, ErrNotWebSocket))
            /\ out' = out
       ELSE IF closed
       THEN /\ stack' = SetTop(Returning(Top, Top.opCode, Top.payload, ErrClosed))
            /\ out' = out
       ELSE /\ stack' = SetTop(Returning(Top, Top.opCode, Top.payload, NoErr))
            /\ out' = Append(out, FrameBytes(Top.opCode, Top.payload))
    /\ UNCHANGED <<wire, ending, closed, websocket, mu, readLog, readRet, pings, lastRet>>
    /\ UNCHANGED <<storeVars, serveVars, codecVars, writeVars, upgradeVars, parseVars, formVars, routeVars, respVars, lockVars>>

\* CloseWebSocket once it holds the lock: the check, and the code after the loop
CloseBody ==
    /\ Top.fn = "CloseWebSocket" /\ Top.pc \in {"body", "close"}
    /\ IF Top.pc = "body"
       THEN /\ stack' = SetTop(IF websocket THEN [Top EXCEPT !.pc = "write"]
                               ELSE Returning(Top, 0, <<>>, ErrNotWebSocket))
            /\ UNCHANGED <<closed, websocket>>
       ELSE IF closed
       THEN /\ stack' = SetTop(Returning(Top, 0, <<>>, ErrClosed))
            /\ UNCHANGED <<closed, websocket>>
       ELSE /\ stack' = SetTop(Returning(Top, 0, <<>>, NoErr))
            /\ closed' = TRUE
            /\ websocket' = FALSE
    /\ UNCHANGED <<wire, ending, out, mu, readLog, readRet, pings, lastRet>>
    /\ UNCHANGED <<storeVars, serveVars, codecVars, writeVars, upgradeVars, parseVars, formVars, routeVars, respVars, lockVars>>

Next ==
    \/ Call
    \/ Return
    \/ Lock
    \/ RLock
    \/ ReadCheck
    \/ Fill
    \/ ReadFrame
    \/ WriteBody
    \/ CloseBody

Spec == Init /\ [][Next]_vars

\* the goroutine keeps running while it can take a step
FairSpec == Spec /\ WF_vars(Next)

\* The goroutine of a connection that has been upgraded or not, about to call
\* ReadWebSocketMessage, WriteWebSocketMessage or, through
\* WebSocketHandleError, CloseWebSocket.
AnyConnInit ==
    /\ StoreIdle /\ ServeIdle /\ CodecIdle /\ WriteIdle /\ UpgradeIdle /\ ParseIdle /\ FormIdle /\ RouteIdle /\ RespIdle /\ LockIdle
    /\ \E fs \in PeerStreams : wire = PeerStreamBytes(fs)
    /\ ending = Open
    /\ closed = FALSE
    /\ out = <<>>
    /\ websocket \in BOOLEAN
    /\ mu = [w |-> FALSE, r |-> 0]
    /\ stack \in {<<Frame("handleWebSocket", "read", 0, <<>>, NoErr)>>,
                  <<Frame("handleWebSocket", "write", WebSocketFrameOpCodeText, <<7>>, NoErr)>>,
                  <<Frame("handleWebSocket", "herr", 0, <<>>, EOF)>>}
    /\ readLog = <<>>
    /\ readRet = Running
    /\ pings = <<>>
    /\ lastRet = NoRet

SpecAnyConn == AnyConnInit /\ [][Next]_vars


(***************************************************************************)
(* Conn.Set and Conn.Get called by several goroutines on one Conn.  The    *)
(* test of c.Data against nil and the assignment of a new map to it come   *)
(* before the lock is taken, so they are steps of their own; what is done  *)
(* under the lock, with the deferred unlock, is one step.                  *)
(***************************************************************************)
Goroutines == 1..NumGoroutines
Keys == {"a", "b"}
Values == 1..MaxValue
Absent == 0
EmptyMap == [k \in Keys |-> Absent]

IdleGoroutine == [pc |-> "idle", op |-> "", key |-> "a", val |-> Absent, calls |-> 0,
                  known |-> FALSE]

WsIdle ==
    /\ wire = <<>>
    /\ ending = Open
    /\ closed = FALSE
    /\ out = <<>>
    /\ websocket = FALSE
    /\ mu = [w |-> FALSE, r |-> 0]
    /\ stack = <<>>
    /\ readLog = <<>>
    /\ readRet = Running
    /\ pings = <<>>
    /\ lastRet = NoRet

\* a Conn as new(Conn) leaves it, or one whose map has been made
StoreInit ==
    /\ WsIdle /\ ServeIdle /\ CodecIdle /\ WriteIdle /\ UpgradeIdle /\ ParseIdle /\ FormIdle /\ RouteIdle /\ RespIdle /\ LockIdle
    /\ \/ Data = 0 /\ maps = <<>>
       \/ Data = 1 /\ maps = <<EmptyMap>>
    /\ smu = [w |-> FALSE, r |-> 0]
    /\ gor = [g \in Goroutines |-> IdleGoroutine]
    /\ setsDone = {}
    /\ getsDone = {}

\* a goroutine calls Set(key, val) or Get(key)
Begin(g) ==
    /\ gor[g].pc = "idle"
    /\ gor[g].calls < MaxCalls
    /\ \E op \in {"Set", "Get"}, k \in Keys, v \in Values :
          /\ op = "Get" => v = 1
          /\ gor' = [gor EXCEPT ![g] = [pc |-> "nilcheck", op |-> op, key |-> k,
                                        val |-> IF op = "Set" THEN v ELSE Absent,
                                        calls |-> gor[g].calls,
                                        known |-> \E w \in Values : <<k, w>> \in setsDone]]
    /\ UNCHANGED <<Data, maps, smu, setsDone, getsDone>>
    /\ UNCHANGED <<wsVars, serveVars, codecVars, writeVars, upgradeVars, parseVars, formVars, routeVars, respVars, lockVars>>

\* if c.Data == nil
NilCheck(g) ==
    /\ gor[g].pc = "nilcheck"
    /\ gor' = [gor EXCEPT ![g].pc = IF Data = 0 THEN "make" ELSE "lock"]
    /\ UNCHANGED <<Data, maps, smu, setsDone, getsDone>>
    /\ UNCHANGED <<wsVars, serveVars, codecVars, writeVars, upgradeVars, parseVars, formVars, routeVars, respVars, lockVars>>

\* c.Data = make(map[string]interface{})
MakeMap(g) ==
    /\ gor[g].pc = "make"
    /\ maps' = Append(maps, EmptyMap)
    /\ Data' = Len(maps) + 1
    /\ gor' = [gor EXCEPT ![g].pc = "lock"]
    /\ UNCHANGED <<smu, setsDone, getsDone>>
    /\ UNCHANGED <<wsVars, serveVars, codecVars, writeVars, upgradeVars, parseVars, formVars, routeVars, respVars, lockVars>>

\* c.mu.Lock() in Set
SetLock(g) ==
    /\ gor[g].pc = "lock" /\ gor[g].op = "Set"
    /\ ~smu.w /\ smu.r = 0
    /\ smu' = [smu EXCEPT !.w = TRUE]
    /\ gor' = [gor EXCEPT ![g].pc = "locked"]
    /\ UNCHANGED <<Data, maps, setsDone, getsDone>>
    /\ UNCHANGED <<wsVars, serveVars, codecVars, writeVars, upgradeVars, parseVars, formVars, routeVars, respVars, lockVars>>

\* c.mu.RLock() in Get
GetRLock(g) ==
    /\ gor[g].pc = "lock" /\ gor[g].op = "Get"
    /\ ~smu.w
    /\ smu' = [smu EXCEPT !.r = smu.r + 1]
    /\ gor' = [gor EXCEPT ![g].pc = "locked"]
    /\ UNCHANGED <<Data, maps, setsDone, getsDone>>
    /\ UNCHANGED <<wsVars, serveVars, codecVars, writeVars, upgradeVars, parseVars, formVars, routeVars, respVars, lockVars>>

MapStoreAll(m, key, value) == [k \in DOMAIN m |-> value]

\* the map c.Data after c.Data[key] = value
MapStore(m, key, value) == [m EXCEPT ![key] = value]

\* c.Data[key] = value, the deferred Unlock and the return
SetStore(g) ==
    /\ gor[g].pc = "locked" /\ gor[g].op = "Set"
    /\ maps' = [maps EXCEPT ![Data] = MapStore(maps[Data], gor[g].key, gor[g].val)]
    /\ smu' = [smu EXCEPT !.w = FALSE]
    /\ setsDone' = setsDone \cup {<<gor[g].key, gor[g].val>>}
    /\ gor' = [gor EXCEPT ![g].pc = "idle", ![g].calls = gor[g].calls + 1]
    /\ UNCHANGED <<Data, getsDone>>
    /\ UNCHANGED <<wsVars, serveVars, codecVars, writeVars, upgradeVars, parseVars, formVars, routeVars, respVars, lockVars>>

\* value, ok = c.Data[key], the deferred RUnlock and the return
GetLoad(g) ==
    /\ gor[g].pc = "locked" /\ gor[g].op = "Get"
    /\ smu' = [smu EXCEPT !.r = smu.r - 1]
    /\ getsDone' = getsDone \cup {[key |-> gor[g].key, val |-> maps[Data][gor[g].key],
                                    ok |-> maps[Data][gor[g].key] # Absent,
                                    known |-> gor[g].known]}
    /\ gor' = [gor EXCEPT ![g].pc = "idle", ![g].calls = gor[g].calls + 1]
    /\ UNCHANGED <<Data, maps, setsDone>>
    /\ UNCHANGED <<wsVars, serveVars, codecVars, writeVars, upgradeVars, parseVars, formVars, routeVars, respVars, lockVars>>

StoreNext ==
    \/ \E g \in Goroutines : Begin(g)
    \/ \E g \in Goroutines : NilCheck(g)
    \/ \E g \in Goroutines : MakeMap(g)
    \/ \E g \in Goroutines : SetLock(g)
    \/ \E g \in Goroutines : GetRLock(g)
    \/ \E g \in Goroutines : SetStore(g)
    \/ \E g \in Goroutines : GetLoad(g)

SpecStore == StoreInit /\ [][StoreNext]_vars

\* Set and Get called one after the other: a call begins when no other runs
\* the calls made so far
SeqCalls == Cardinality({c \in Goroutines \X (1..MaxCalls) : c[2] <= gor[c[1]].calls})

SeqBegin(g) ==
    /\ \A h \in Goroutines : gor[h].pc = "idle"
    /\ SeqCalls < MaxSeqCalls
    /\ Begin(g)

SeqNext ==
    \/ \E g \in Goroutines : SeqBegin(g)
    \/ \E g \in Goroutines : NilCheck(g)
    \/ \E g \in Goroutines : MakeMap(g)
    \/ \E g \in Goroutines : SetLock(g)
    \/ \E g \in Goroutines : GetRLock(g)
    \/ \E g \in Goroutines : SetStore(g)
    \/ \E g \in Goroutines : GetLoad(g)

SpecSeq == StoreInit /\ [][SeqNext]_vars

(***************************************************************************)
(* Router.ListenAndServe (Server.ListenAndServe is the same code): one     *)
(* Conn c is made before the loop; every Accept assigns c.Conn, and every  *)
(* goroutine the loop starts works on that same c.  A connection is its    *)
(* place in conns, and the message parsed from its request bears the same  *)
(* number.  The accesses to c.Conn and c.Message are not synchronised: a   *)
(* goroutine finds in them what was assigned last.                         *)
(***************************************************************************)
\* what the peer of a connection does: sends a request that parses, sends
\* bytes that do not, or closes without sending
Inputs == {"request", "garbage", "eof"}

ServeInit ==
    /\ WsIdle /\ StoreIdle /\ CodecIdle /\ WriteIdle /\ UpgradeIdle /\ ParseIdle /\ FormIdle /\ RouteIdle /\ RespIdle /\ LockIdle
    /\ ServeIdle

\* c.Conn, err = listener.Accept() and the go statement
Accept ==
    /\ Len(conns) < MaxConns
    /\ \E in \in Inputs :
          conns' = Append(conns, [input |-> in, unread |-> TRUE, written |-> <<>>,
                                  closed |-> FALSE])
    /\ cConn' = Len(conns) + 1
    /\ served' = Append(served, [pc |-> "call", rc |-> 0])
    /\ UNCHANGED <<cMessage, touched>>
    /\ UNCHANGED <<wsVars, storeVars, codecVars, writeVars, upgradeVars, parseVars, formVars, routeVars, respVars, lockVars>>

\* c.Conn.Read(req): the receiver is c.Conn as it is when the call is made
ReadCall(g) ==
    /\ served[g].pc = "call"
    /\ served' = [served EXCEPT ![g] = [pc |-> "read", rc |-> cConn]]
    /\ UNCHANGED <<cConn, cMessage, conns, touched>>
    /\ UNCHANGED <<wsVars, storeVars, codecVars, writeVars, upgradeVars, parseVars, formVars, routeVars, respVars, lockVars>>

\* the Read returns: an error and the goroutine returns, or the request
ReadReturn(g) ==
    /\ served[g].pc = "read"
    /\ LET k == served[g].rc IN
       /\ conns[k].closed \/ conns[k].unread
       /\ IF conns[k].closed \/ conns[k].input = "eof"
          THEN /\ served' = [served EXCEPT ![g].pc = "done"]
               /\ conns' = conns
          ELSE /\ served' = [served EXCEPT ![g].pc = "parse"]
               /\ conns' = [conns EXCEPT ![k].unread = FALSE]
       /\ touched' = touched \cup {[g |-> g, what |-> "read", conn |-> k, msg |-> 0]}
    /\ UNCHANGED <<cConn, cMessage>>
    /\ UNCHANGED <<wsVars, storeVars, codecVars, writeVars, upgradeVars, parseVars, formVars, routeVars, respVars, lockVars>>

\* c.Message, err = context.NewContext(req[:n]): nil is assigned with an error
Parse(g) ==
    /\ served[g].pc = "parse"
    /\ LET k == served[g].rc IN
       /\ cMessage' = IF conns[k].input = "request" THEN k ELSE 0
       /\ served' = [served EXCEPT ![g].pc = IF conns[k].input = "request"
                                              THEN "serve" ELSE "done"]
    /\ UNCHANGED <<cConn, conns, touched>>
    /\ UNCHANGED <<wsVars, storeVars, codecVars, writeVars, upgradeVars, parseVars, formVars, routeVars, respVars, lockVars>>

\* r.Serve(c): a nil c.Message panics; else the handler, or the 404, answers
\* the message c holds on the connection c holds
Serve(g) ==
    /\ served[g].pc = "serve"
    /\ IF cMessage = 0
       THEN /\ served' = [served EXCEPT ![g].pc = "panic"]
            /\ UNCHANGED <<conns, touched>>
       ELSE /\ served' = [served EXCEPT ![g].pc = "close"]
            /\ conns' = [conns EXCEPT ![cConn].written =
                            IF conns[cConn].closed THEN @ ELSE Append(@, cMessage)]
            /\ touched' = touched \cup {[g |-> g, what |-> "answer", conn |-> cConn,
                                         msg |-> cMessage]}
    /\ UNCHANGED <<cConn, cMessage>>
    /\ UNCHANGED <<wsVars, storeVars, codecVars, writeVars, upgradeVars, parseVars, formVars, routeVars, respVars, lockVars>>

\* c.Conn.Close()
CloseConn(g) ==
    /\ served[g].pc = "close"
    /\ conns' = [conns EXCEPT ![cConn].closed = TRUE]
    /\ touched' = touched \cup {[g |-> g, what |-> "close", conn |-> cConn, msg |-> 0]}
    /\ served' = [served EXCEPT ![g].pc = "done"]
    /\ UNCHANGED <<cConn, cMessage>>
    /\ UNCHANGED <<wsVars, storeVars, codecVars, writeVars, upgradeVars, parseVars, formVars, routeVars, respVars, lockVars>>

ServeNext ==
    \/ Accept
    \/ \E g \in 1..Len(served) : ReadCall(g)
    \/ \E g \in 1..Len(served) : ReadReturn(g)
    \/ \E g \in 1..Len(served) : Parse(g)
    \/ \E g \in 1..Len(served) : Serve(g)
    \/ \E g \in 1..Len(served) : CloseConn(g)

SpecServe == ServeInit /\ [][ServeNext]_vars

\* the listener and every goroutine it started keep running while they can
\* take a step
FairSpecServe ==
    /\ SpecServe
    /\ WF_vars(Accept)
    /\ \A g \in 1..MaxConns :
          WF_vars(/\ g <= Len(served)
                  /\ ReadCall(g) \/ ReadReturn(g) \/ Parse(g) \/ Serve(g) \/ CloseConn(g))

(***************************************************************************)
(* The frame codec by itself: a frame is written as WriteWebSocketMessage  *)
(* writes it, and the bytes written are read by readWebSocketFrame from a  *)
(* reader that ends after them.                                            *)
(***************************************************************************)
RoundTripLens == {0, 1, 125, 126, 65535, 65536}
OpCodes == 0..15

RoundTripPayload(len, seed) == [i \in 1..len |-> (seed + i) % 256]

CodecInit ==
    /\ WsIdle /\ StoreIdle /\ ServeIdle /\ WriteIdle /\ UpgradeIdle /\ ParseIdle /\ FormIdle /\ RouteIdle /\ RespIdle /\ LockIdle
    /\ \E opCode \in OpCodes, len \in RoundTripLens, seed \in 0..MaxSeed :
          frameIn = [opCode |-> opCode, payload |-> RoundTripPayload(len, seed)]
    /\ frameWire = <<>>
    /\ frameOut = FrameFail(NoErr, 0)
    /\ codecPc = "idle"

Encode ==
    /\ codecPc = "idle"
    /\ frameWire' = FrameBytes(frameIn.opCode, frameIn.payload)
    /\ codecPc' = "written"
    /\ UNCHANGED <<frameIn, frameOut>>
    /\ UNCHANGED <<wsVars, storeVars, serveVars, writeVars, upgradeVars, parseVars, formVars, routeVars, respVars, lockVars>>

Decode ==
    /\ codecPc = "written"
    /\ frameOut' = readWebSocketFrame(frameWire, EOF)
    /\ codecPc' = "read"
    /\ UNCHANGED <<frameIn, frameWire>>
    /\ UNCHANGED <<wsVars, storeVars, serveVars, writeVars, upgradeVars, parseVars, formVars, routeVars, respVars, lockVars>>

CodecNext ==
    \/ Encode
    \/ Decode

SpecCodec == CodecInit /\ [][CodecNext]_vars

(***************************************************************************)
(* readWebSocketFrame by itself, on the bytes of one frame as a peer may   *)
(* craft it: any of the three length fields, masked or not, with all of    *)
(* its payload, or with its last byte missing.                             *)
(***************************************************************************)
FirstBytes == {WebSocketFrameFinBit + WebSocketFrameOpCodeText, WebSocketFrameOpCodeBinary}
MaskKeys == {<<1, 2, 3, 4>>, <<255, 0, 170, 85>>}

\* the length fields: 7 bits, 126 and 16 bits, 127 and 64 bits; n is the
\* number of payload bytes the peer sends after it
CraftedLengths ==
    {[field |-> <<n>>, n |-> n] : n \in 0..MaxPayload}
    \cup {[field |-> <<126, 0, n>>, n |-> n] : n \in {0, MaxPayload}}
    \cup {[field |-> <<127, top, 0, 0, 0, 0, 0, 0, n>>, n |-> n] :
             top \in {0, 1, 127, 128, 255}, n \in {0, MaxPayload}}
    \cup {[field |-> <<127>> \o WebSocketMaxPayloadLen, n |-> MaxPayload],
          [field |-> <<127, 255, 255, 255, 255, 255, 255, 255, 255>>, n |-> MaxPayload]}

CraftedPayload(n) == [i \in 1..n |-> (i * 37) % 256]

CraftedWire(b1, key, l, cut) ==
    <<b1, BitOr(IF key = <<>> THEN 0 ELSE WebSocketFrameMaskBit, l.field[1])>>
        \o Tail(l.field) \o key \o Take(CraftedPayload(l.n), l.n - cut)

CraftedWires ==
    UNION {{CraftedWire(b1, key, l, cut) :
               b1 \in FirstBytes, key \in MaskKeys \cup {<<>>},
               cut \in {c \in {0, 1} : c <= l.n}} : l \in CraftedLengths}

FrameInit ==
    /\ WsIdle /\ StoreIdle /\ ServeIdle /\ WriteIdle /\ UpgradeIdle /\ ParseIdle /\ FormIdle /\ RouteIdle /\ RespIdle /\ LockIdle
    /\ frameIn = [opCode |-> 0, payload |-> <<>>]
    /\ frameWire \in CraftedWires
    /\ frameOut = FrameFail(NoErr, 0)
    /\ codecPc = "written"

FrameNext == Decode

SpecFrame == FrameInit /\ [][FrameNext]_vars

(***************************************************************************)
(* WriteWebSocketMessage called by several goroutines on one Conn.  The    *)
(* transport is a net.Conn of which nothing more is known: c.Conn.Write    *)
(* hands it the buffer, and it sends the bytes in one or more pieces.      *)
(***************************************************************************)
Writers == 1..NumWriters

IdleWriter == [pc |-> "idle", opCode |-> 0, payload |-> <<>>, buf |-> <<>>, sent |-> 0,
               err |-> NoErr, calls |-> 0]

WriteInit ==
    /\ WsIdle /\ StoreIdle /\ ServeIdle /\ CodecIdle /\ UpgradeIdle /\ ParseIdle /\ FormIdle /\ RouteIdle /\ RespIdle /\ LockIdle
    /\ writers = [g \in Writers |-> IdleWriter]
    /\ wmu = 0
    /\ wWebsocket \in BOOLEAN
    /\ transport = <<>>

\* the calls of WriteWebSocketMessage made so far
WritesBegun ==
    Cardinality({c \in Writers \X (1..MaxWrites) : c[2] <= writers[c[1]].calls})

\* a goroutine calls WriteWebSocketMessage(opCode, payload)
WBegin(g) ==
    /\ writers[g].pc = "idle"
    /\ WritesBegun < MaxWrites
    /\ \E payload \in {<<>>, <<g>>} :
          writers' = [writers EXCEPT ![g] =
                         [pc |-> "lock", opCode |-> WebSocketFrameOpCodeText,
                          payload |-> payload, buf |-> <<>>, sent |-> 0, err |-> NoErr,
                          calls |-> @.calls + 1]]
    /\ UNCHANGED <<wmu, wWebsocket, transport>>
    /\ UNCHANGED <<wsVars, storeVars, serveVars, codecVars, upgradeVars, parseVars, formVars, routeVars, respVars, lockVars>>

\* WLock that does not wait for the holder of the lock
WLockNoWait(g) ==
    /\ writers[g].pc = "lock"
    /\ wmu' = g
    /\ writers' = [writers EXCEPT ![g].pc = "check"]
    /\ UNCHANGED <<wWebsocket, transport>>
    /\ UNCHANGED <<wsVars, storeVars, serveVars, codecVars, upgradeVars, parseVars, formVars, routeVars, respVars, lockVars>>

\* c.mu.Lock()
WLock(g) ==
    /\ writers[g].pc = "lock"
    /\ wmu = 0
    /\ wmu' = g
    /\ writers' = [writers EXCEPT ![g].pc = "check"]
    /\ UNCHANGED <<wWebsocket, transport>>
    /\ UNCHANGED <<wsVars, storeVars, serveVars, codecVars, upgradeVars, parseVars, formVars, routeVars, respVars, lockVars>>

\* the IsWebSocket check and the frame put together in buf
WAssemble(g) ==
    /\ writers[g].pc = "check"
    /\ writers' = [writers EXCEPT ![g] =
          IF wWebsocket
          THEN [writers[g] EXCEPT !.pc = "write",
                  !.buf = FrameBytes(writers[g].opCode, writers[g].payload)]
          ELSE [writers[g] EXCEPT !.pc = "return", !.err = ErrNotWebSocket]]
    /\ UNCHANGED <<wmu, wWebsocket, transport>>
    /\ UNCHANGED <<wsVars, storeVars, serveVars, codecVars, upgradeVars, parseVars, formVars, routeVars, respVars, lockVars>>

\* c.Conn.Write(buf.Bytes()) under way: the transport sends the next piece
\* of the buffer, and Write returns nil after the last
WSend(g) ==
    /\ writers[g].pc = "write"
    /\ \E n \in 1..(Len(writers[g].buf) - writers[g].sent) :
          /\ transport' = transport \o
                [i \in 1..n |-> [g |-> g, call |-> writers[g].calls,
                                 at |-> writers[g].sent + i,
                                 byte |-> writers[g].buf[writers[g].sent + i],
                                 locked |-> wmu = g]]
          /\ writers' = [writers EXCEPT ![g].sent = @ + n,
                                        ![g].pc = IF writers[g].sent + n = Len(writers[g].buf)
                                                  THEN "return" ELSE "write"]
    /\ UNCHANGED <<wmu, wWebsocket>>
    /\ UNCHANGED <<wsVars, storeVars, serveVars, codecVars, upgradeVars, parseVars, formVars, routeVars, respVars, lockVars>>

\* c.Conn.Write fails: the error is returned
WSendFails(g) ==
    /\ writers[g].pc = "write"
    /\ writers' = [writers EXCEPT ![g].pc = "return", ![g].err = ErrClosed]
    /\ UNCHANGED <<wmu, wWebsocket, transport>>
    /\ UNCHANGED <<wsVars, storeVars, serveVars, codecVars, upgradeVars, parseVars, formVars, routeVars, respVars, lockVars>>

\* the return, and the deferred c.mu.Unlock()
WReturn(g) ==
    /\ writers[g].pc = "return"
    /\ wmu' = 0
    /\ writers' = [writers EXCEPT ![g].pc = "idle"]
    /\ UNCHANGED <<wWebsocket, transport>>
    /\ UNCHANGED <<wsVars, storeVars, serveVars, codecVars, upgradeVars, parseVars, formVars, routeVars, respVars, lockVars>>

WriteNext ==
    \/ \E g \in Writers : WBegin(g)
    \/ \E g \in Writers : WLock(g)
    \/ \E g \in Writers : WAssemble(g)
    \/ \E g \in Writers : WSend(g)
    \/ \E g \in Writers : WSendFails(g)
    \/ \E g \in Writers : WReturn(g)

SpecWrite == WriteInit /\ [][WriteNext]_vars

(***************************************************************************)
(* crypto/sha1 and encoding/base64 as UpgradeToWebSocket uses them, on     *)
(* byte sequences.  A 32-bit word is the pair of its two 16-bit halves,    *)
(* the high one first.                                                     *)
(***************************************************************************)
RECURSIVE BitAnd(_, _)
BitAnd(a, b) ==
    IF a = 0 \/ b = 0 THEN 0
    ELSE (IF a % 2 = 1 /\ b % 2 = 1 THEN 1 ELSE 0) + 2 * BitAnd(a \div 2, b \div 2)

WordXor(a, b) == <<BitXor(a[1], b[1]), BitXor(a[2], b[2])>>
WordAnd(a, b) == <<BitAnd(a[1], b[1]), BitAnd(a[2], b[2])>>
WordOr(a, b) == <<BitOr(a[1], b[1]), BitOr(a[2], b[2])>>
WordNot(a) == <<65535 - a[1], 65535 - a[2]>>
\* a + b modulo 2^32
WordAdd(a, b) ==
    <<(a[1] + b[1] + ((a[2] + b[2]) \div 65536)) % 65536, (a[2] + b[2]) % 65536>>

\* bits.RotateLeft32(w, n), 0 < n < 32
RotateLeft(w, n) ==
    LET v == IF n >= 16 THEN <<w[2], w[1]>> ELSE w
        k == n % 16
    IN IF k = 0 THEN v
       ELSE <<((v[1] * (2^k)) % 65536) + (v[2] \div (2^(16 - k))),
              ((v[2] * (2^k)) % 65536) + (v[1] \div (2^(16 - k)))>>

\* the message followed by 0x80, zeros up to 56 modulo 64, and its length in
\* bits as 8 bytes (messages of under 2^28 bytes)
Sha1Padded(msg) ==
    LET zeros == (119 - (Len(msg) % 64)) % 64
        bits == 8 * Len(msg)
    IN msg \o <<128>> \o [i \in 1..zeros |-> 0]
           \o <<0, 0, 0, 0, (bits \div 16777216) % 256, (bits \div 65536) % 256,
                (bits \div 256) % 256, bits % 256>>

\* the 16 words of the block that starts after the first at bytes of p
Sha1Block(p, at) ==
    [t \in 1..16 |-> <<p[at + 4 * t - 3] * 256 + p[at + 4 * t - 2],
                       p[at + 4 * t - 1] * 256 + p[at + 4 * t]>>]

\* the message schedule: the block's words extended to 80
RECURSIVE Sha1Schedule(_)
Sha1Schedule(w) ==
    IF Len(w) >= 80 THEN w
    ELSE LET t == Len(w) + 1
         IN Sha1Schedule(Append(w,
               RotateLeft(WordXor(WordXor(w[t - 3], w[t - 8]),
                                  WordXor(w[t - 14], w[t - 16])), 1)))

\* round t (from 1) on the working variables v = <<a, b, c, d, e>>
Sha1Round(v, w, t) ==
    LET f == IF t <= 20 THEN WordOr(WordAnd(v[2], v[3]), WordAnd(WordNot(v[2]), v[4]))
             ELSE IF t <= 40 THEN WordXor(WordXor(v[2], v[3]), v[4])
             ELSE IF t <= 60 THEN WordOr(WordOr(WordAnd(v[2], v[3]), WordAnd(v[2], v[4])),
                                         WordAnd(v[3], v[4]))
             ELSE WordXor(WordXor(v[2], v[3]), v[4])
        k == IF t <= 20 THEN <<23170, 31129>>
             ELSE IF t <= 40 THEN <<28377, 60321>>
             ELSE IF t <= 60 THEN <<36635, 48348>>
             ELSE <<51810, 49622>>
        temp == WordAdd(WordAdd(WordAdd(RotateLeft(v[1], 5), f), WordAdd(v[5], k)), w[t])
    IN <<temp, v[1], RotateLeft(v[2], 30), v[3], v[4]>>

\* rounds t to 80 on the five working variables; the test of their number
\* has v evaluated round by round
RECURSIVE Sha1Rounds(_, _, _)
Sha1Rounds(v, w, t) ==
    IF t > 80 \/ Len(v) # 5 THEN v ELSE Sha1Rounds(Sha1Round(v, w, t), w, t + 1)

\* the digest words after the blocks of p from the byte after at
RECURSIVE Sha1Blocks(_, _, _)
Sha1Blocks(h, p, at) ==
    IF at >= Len(p) THEN h
    ELSE LET v == Sha1Rounds(h, Sha1Schedule(Sha1Block(p, at)), 1)
         IN Sha1Blocks([i \in 1..5 |-> WordAdd(h[i], v[i])], p, at + 64)

Sha1Init == <<<<26437, 8961>>, <<61389, 43913>>, <<39098, 56574>>, <<4146, 21622>>,
              <<50130, 57840>>>>

\* sha1.Sum: the 20 bytes of the digest
Sha1Sum(msg) ==
    LET h == Sha1Blocks(Sha1Init, Sha1Padded(msg), 0)
    IN [i \in 1..20 |->
          LET half == h[((i - 1) \div 4) + 1][(((i - 1) % 4) \div 2) + 1]
          IN IF i % 2 = 1 THEN half \div 256 ELSE half % 256]

\* the character of base64.StdEncoding for the 6 bits i
Base64Char(i) ==
    IF i < 26 THEN 65 + i
    ELSE IF i < 52 THEN 97 + (i - 26)
    ELSE IF i < 62 THEN 48 + (i - 52)
    ELSE IF i = 62 THEN 43 ELSE 47

\* base64.StdEncoding.EncodeToString, with '=' (61) as padding
RECURSIVE Base64Encode(_)
Base64Encode(b) ==
    IF b = <<>> THEN <<>>
    ELSE IF Len(b) = 1
    THEN <<Base64Char(b[1] \div 4), Base64Char((b[1] % 4) * 16), 61, 61>>
    ELSE IF Len(b) = 2
    THEN <<Base64Char(b[1] \div 4), Base64Char(((b[1] % 4) * 16) + (b[2] \div 16)),
           Base64Char((b[2] % 16) * 4), 61>>
    ELSE <<Base64Char(b[1] \div 4), Base64Char(((b[1] % 4) * 16) + (b[2] \div 16)),
           Base64Char(((b[2] % 16) * 4) + (b[3] \div 64)), Base64Char(b[3] % 64)>>
            \o Base64Encode(SubSeq(b, 4, Len(b)))

(***************************************************************************)
(* UpgradeToWebSocket.  The start line and the key are byte sequences (the *)
(* text is in the comments); the other header values are strings, and a    *)
(* header that is not in the map reads as the empty value, as in Go.  The  *)
(* response is the sequence of its lines, each a fixed text and the bytes  *)
(* put after it, and a Write that fails has sent the first upConn lines.   *)
(***************************************************************************)
\* "258EAFA5-E914-47DA-95CA-C5AB0DC85B11"
WebSocketMagicString ==
    <<50, 53, 56, 69, 65, 70, 65, 53, 45, 69, 57, 49, 52, 45, 52, 55, 68, 65, 45,
       57, 53, 67, 65, 45, 67, 53, 65, 66, 48, 68, 67, 56, 53, 66, 49, 49>>
WebSocketVersion == "13"
errInvalidHandshake == "invalid handshake"
errUnsupportedProtocol == "unsupported protocol"
ErrWrite == "write: broken pipe"

HasPrefix(s, prefix) == Len(s) >= Len(prefix) /\ SubSeq(s, 1, Len(prefix)) = prefix
HasSuffix(s, suffix) ==
    Len(s) >= Len(suffix) /\ SubSeq(s, Len(s) - Len(suffix) + 1, Len(s)) = suffix

\* "GET" and "HTTP/1.1"
TextGET == <<71, 69, 84>>
TextHTTP11 == <<72, 84, 84, 80, 47, 49, 46, 49>>

\* HandshakeError with the version tested before the Upgrade header
HandshakeErrorVersionFirst(m) ==
    IF m.nil THEN errInvalidHandshake
    ELSE IF ~HasPrefix(m.StartLine, TextGET) \/ ~HasSuffix(m.StartLine, TextHTTP11)
    THEN errInvalidHandshake
    ELSE IF m.Headers["Sec-WebSocket-Version"] # WebSocketVersion
    THEN errUnsupportedProtocol
    ELSE IF m.Headers["Upgrade"] # "websocket" THEN errInvalidHandshake
    ELSE IF m.Headers["Connection"] # "Upgrade" THEN errInvalidHandshake
    ELSE IF m.Headers["Sec-WebSocket-Key"] = <<>> THEN errInvalidHandshake
    ELSE NoErr

\* the checks of UpgradeToWebSocket before the response: the error returned,
\* or NoErr
HandshakeError(m) ==
    IF m.nil THEN errInvalidHandshake
    ELSE IF ~HasPrefix(m.StartLine, TextGET) \/ ~HasSuffix(m.StartLine, TextHTTP11)
    THEN errInvalidHandshake
    ELSE IF m.Headers["Upgrade"] # "websocket" THEN errInvalidHandshake
    ELSE IF m.Headers["Connection"] # "Upgrade" THEN errInvalidHandshake
    ELSE IF m.Headers["Sec-WebSocket-Version"] # WebSocketVersion
    THEN errUnsupportedProtocol
    ELSE IF m.Headers["Sec-WebSocket-Key"] = <<>> THEN errInvalidHandshake
    ELSE NoErr

\* responseKey with the hash of the key alone
ResponseKeyNoMagic(key) == Base64Encode(Sha1Sum(key))

\* responseKey
ResponseKey(key) == Base64Encode(Sha1Sum(key \o WebSocketMagicString))

\* response, by its lines; each ends with CRLF
Response(key) ==
    <<<<"HTTP/1.1 101 Switching Protocols", <<>>>>,
      <<"Upgrade: websocket", <<>>>>,
      <<"Connection: Upgrade", <<>>>>,
      <<"Sec-WebSocket-Accept: ", ResponseKey(key)>>,
      <<"", <<>>>>>>

\* UpgradeToWebSocket with the flag set before the response is written
UpgradeFlagFirst(m, conn, flag) ==
    IF HandshakeError(m) # NoErr
    THEN [err |-> HandshakeError(m), out |-> <<>>, flag |-> flag]
    ELSE IF conn # Healthy
    THEN [err |-> ErrWrite,
          out |-> Take(Response(m.Headers["Sec-WebSocket-Key"]), conn), flag |-> TRUE]
    ELSE [err |-> NoErr, out |-> Response(m.Headers["Sec-WebSocket-Key"]), flag |-> TRUE]

\* UpgradeToWebSocket with the flag cleared when a check fails
UpgradeClearsFlag(m, conn, flag) ==
    IF HandshakeError(m) # NoErr
    THEN [err |-> HandshakeError(m), out |-> <<>>, flag |-> FALSE]
    ELSE IF conn # Healthy
    THEN [err |-> ErrWrite,
          out |-> Take(Response(m.Headers["Sec-WebSocket-Key"]), conn), flag |-> flag]
    ELSE [err |-> NoErr, out |-> Response(m.Headers["Sec-WebSocket-Key"]), flag |-> TRUE]

\* UpgradeToWebSocket on the message m, the transport conn and the flag as it
\* is: the error returned, what was sent, and the flag afterwards
UpgradeToWebSocket(m, conn, flag) ==
    IF HandshakeError(m) # NoErr
    THEN [err |-> HandshakeError(m), out |-> <<>>, flag |-> flag]
    ELSE IF conn # Healthy
    THEN [err |-> ErrWrite,
          out |-> Take(Response(m.Headers["Sec-WebSocket-Key"]), conn), flag |-> flag]
    ELSE [err |-> NoErr, out |-> Response(m.Headers["Sec-WebSocket-Key"]), flag |-> TRUE]

\* "GET /ws HTTP/1.1", "GET HTTP/1.1", "POST /ws HTTP/1.1", "GET /ws HTTP/1.0",
\* "GET", "HTTP/1.1"
StartLines ==
    {<<71, 69, 84, 32, 47, 119, 115, 32, 72, 84, 84, 80, 47, 49, 46, 49>>,
     <<71, 69, 84, 32, 72, 84, 84, 80, 47, 49, 46, 49>>,
     <<80, 79, 83, 84, 32, 47, 119, 115, 32, 72, 84, 84, 80, 47, 49, 46, 49>>,
     <<71, 69, 84, 32, 47, 119, 115, 32, 72, 84, 84, 80, 47, 49, 46, 48>>,
     <<71, 69, 84>>,
     <<72, 84, 84, 80, 47, 49, 46, 49>>}

\* "dGhlIHNhbXBsZSBub25jZQ=="
SampleKey ==
    <<100, 71, 104, 108, 73, 72, 78, 104, 98, 88, 66, 115,
      90, 83, 66, 117, 98, 50, 53, 106, 90, 81, 61, 61>>
\* "x3JJHMbDL1EzLkh9GBhXDw=="
OtherKey ==
    <<120, 51, 74, 74, 72, 77, 98, 68, 76, 49, 69, 122,
      76, 107, 104, 57, 71, 66, 104, 88, 68, 119, 61, 61>>

UpgradeRequests ==
    {[StartLine |-> line, nil |-> FALSE,
      Headers |-> [h \in {"Upgrade", "Connection", "Sec-WebSocket-Version",
                          "Sec-WebSocket-Key"} |->
                     CASE h = "Upgrade" -> up
                       [] h = "Connection" -> co
                       [] h = "Sec-WebSocket-Version" -> ve
                       [] OTHER -> key]] :
        line \in StartLines, up \in {"websocket", "", "WebSocket"},
        co \in {"Upgrade", "", "keep-alive"}, ve \in {"13", "", "8"},
        key \in {SampleKey, OtherKey, <<>>}}

UpgradeInit ==
    /\ WsIdle /\ StoreIdle /\ ServeIdle /\ CodecIdle /\ WriteIdle /\ ParseIdle /\ FormIdle /\ RouteIdle /\ RespIdle /\ LockIdle
    /\ upMessage \in UpgradeRequests \cup {NoMessage}
    /\ upConn \in {Healthy, 0, 3}
    /\ upOut = <<>>
    /\ upFlag = FALSE
    /\ upErr = NoErr
    /\ upPc = "idle"

Upgrade ==
    /\ upPc = "idle"
    /\ LET r == UpgradeToWebSocket(upMessage, upConn, upFlag)
       IN /\ upErr' = r.err
          /\ upOut' = r.out
          /\ upFlag' = r.flag
    /\ upPc' = "done"
    /\ UNCHANGED <<upMessage, upConn>>
    /\ UNCHANGED <<wsVars, storeVars, serveVars, codecVars, writeVars, parseVars, formVars, routeVars, respVars, lockVars>>

UpgradeNext == Upgrade

SpecUpgrade == UpgradeInit /\ [][UpgradeNext]_vars

\* UpgradeToWebSocket called on a Conn that may have been upgraded before:
\* c.Data["websocket"] is true or not when the call is made
UpgradeAgainInit ==
    /\ WsIdle /\ StoreIdle /\ ServeIdle /\ CodecIdle /\ WriteIdle /\ ParseIdle /\ FormIdle /\ RouteIdle /\ RespIdle /\ LockIdle
    /\ upMessage \in UpgradeRequests \cup {NoMessage}
    /\ upConn \in {Healthy, 0, 3}
    /\ upOut = <<>>
    /\ upFlag \in BOOLEAN
    /\ upErr = NoErr
    /\ upPc = "idle"

SpecUpgradeAgain == UpgradeAgainInit /\ [][UpgradeNext]_vars

(***************************************************************************)
(* NewMessage: the request parser.  A buffer is a sequence of bytes.       *)
(***************************************************************************)
LF == 10
CR == 13
Colon == 58
CRLF == <<CR, LF>>
Digits == 48..57
\* the bytes bytes.TrimSpace takes for white space: \t \n \v \f \r and space
WhiteSpace == {9, 10, 11, 12, 13, 32}

ErrInvalidHeader == "invalid header format"
ErrSyntax == "strconv.Atoi: invalid syntax"
ErrRange == "strconv.Atoi: value out of range"
ErrSliceBounds == "panic: slice bounds out of range"
ErrOutOfMemory == "fatal error: out of memory"
\* the ways the call ends without returning
Panics == {ErrSliceBounds, ErrLenOutOfRange, ErrOutOfMemory}

\* "Content-Length"
TextContentLength == <<67, 111, 110, 116, 101, 110, 116, 45, 76, 101, 110, 103, 116, 104>>

\* index of the first b in s, 0 when there is none
IndexByte(s, b) ==
    IF \E i \in 1..Len(s) : s[i] = b
    THEN CHOOSE i \in 1..Len(s) : s[i] = b /\ \A j \in 1..(i - 1) : s[j] # b
    ELSE 0

\* index of the last b in s, 0 when there is none
LastIndexByte(s, b) ==
    IF \E i \in 1..Len(s) : s[i] = b
    THEN CHOOSE i \in 1..Len(s) : s[i] = b /\ \A j \in (i + 1)..Len(s) : s[j] # b
    ELSE 0

\* r.ReadBytes('\n') on a reader that still holds s: the bytes up to and
\* with the first LF, or all that is left together with io.EOF
ReadBytes(s) ==
    LET k == IndexByte(s, LF)
    IN  IF k = 0 THEN [line |-> s, rest |-> <<>>, err |-> EOF]
        ELSE [line |-> Take(s, k), rest |-> Drop(s, k), err |-> NoErr]

SplitNLastColon(line) ==
    LET k == LastIndexByte(line, Colon)
    IN  IF k = 0 THEN <<line>> ELSE <<Take(line, k - 1), Drop(line, k)>>

\* bytes.SplitN(line, []byte{':'}, 2)
SplitN(line) ==
    LET k == IndexByte(line, Colon)
    IN  IF k = 0 THEN <<line>> ELSE <<Take(line, k - 1), Drop(line, k)>>

RECURSIVE TrimLeft(_)
TrimLeft(s) ==
    IF s # <<>> /\ Head(s) \in WhiteSpace THEN TrimLeft(Tail(s)) ELSE s

RECURSIVE TrimRight(_)
TrimRight(s) ==
    IF s # <<>> /\ s[Len(s)] \in WhiteSpace THEN TrimRight(Take(s, Len(s) - 1)) ELSE s

\* bytes.TrimSpace
TrimSpace(s) == TrimRight(TrimLeft(s))

RECURSIVE TrimZeros(_)
TrimZeros(s) == IF s # <<>> /\ Head(s) = 48 THEN TrimZeros(Tail(s)) ELSE s

\* a > b for two numbers given by their decimal digits without leading zeros
DigitsGreater(a, b) ==
    \/ Len(a) > Len(b)
    \/ Len(a) = Len(b) /\ BytesGreater(a, b)

\* "9223372036854775807": the largest int (64 bits)
MaxIntDigits == <<57, 50, 50, 51, 51, 55, 50, 48, 51, 54, 56, 53, 52, 55, 55, 53, 56, 48, 55>>
\* "9223372036854775808": the magnitude of the smallest int
MinIntDigits == <<57, 50, 50, 51, 51, 55, 50, 48, 51, 54, 56, 53, 52, 55, 55, 53, 56, 48, 56>>
\* "281474976710656": the most bytes make may be asked for (maxAlloc, 1 << 48)
MaxAllocDigits == <<50, 56, 49, 52, 55, 52, 57, 55, 54, 55, 49, 48, 54, 53, 54>>
\* the longest digit string whose value is kept as a number here
SmallDigits == 9

\* strconv.Atoi: an optional sign, then one or more decimal digits, within
\* the range of int.  The value is kept as its sign and its digits without
\* leading zeros.
Atoi(s) ==
    LET signed == s # <<>> /\ Head(s) \in {43, 45}
        body == IF signed THEN Tail(s) ELSE s
        neg == signed /\ Head(s) = 45
        sig == TrimZeros(body)
    IN  IF body = <<>> \/ \E i \in 1..Len(body) : body[i] \notin Digits
        THEN [err |-> ErrSyntax, neg |-> FALSE, digits |-> <<>>]
        ELSE IF DigitsGreater(sig, IF neg THEN MinIntDigits ELSE MaxIntDigits)
        THEN [err |-> ErrRange, neg |-> FALSE, digits |-> <<>>]
        ELSE [err |-> NoErr, neg |-> neg /\ sig # <<>>, digits |-> sig]

RECURSIVE DigitsValue(_)
DigitsValue(d) ==
    IF d = <<>> THEN 0 ELSE 10 * DigitsValue(Take(d, Len(d) - 1)) + (d[Len(d)] - 48)

\* make([]byte, length): a negative length or one beyond maxAlloc panics; a
\* length the machine may or may not have the memory for is made or ends the
\* process, as alloc says
Make(n, alloc) ==
    IF n.neg \/ DigitsGreater(n.digits, MaxAllocDigits) THEN ErrLenOutOfRange
    ELSE IF Len(n.digits) > SmallDigits /\ ~alloc THEN ErrOutOfMemory
    ELSE NoErr

Failed(err) == [m |-> NilMessage, err |-> err]
Parsed(startLine, headers, body) ==
    [m |-> [nil |-> FALSE, StartLine |-> startLine, Headers |-> headers, Body |-> body],
     err |-> NoErr]

\* m.Headers[name] = value
PutHeader(h, name, value) ==
    [n \in (DOMAIN h) \cup {name} |-> IF n = name THEN value ELSE h[n]]

\* the header loop: the map it ends with and what the reader still holds, or
\* the error or panic that ends it
RECURSIVE ReadHeaders(_, _)
ReadHeaders(s, h) ==
    LET r == ReadBytes(s)
        parts == SplitN(r.line)
    IN  IF r.err # NoErr THEN [err |-> r.err, Headers |-> h, rest |-> <<>>]
        ELSE IF Len(r.line) = 2 THEN [err |-> NoErr, Headers |-> h, rest |-> r.rest]
        ELSE IF Len(parts) # 2 THEN [err |-> ErrInvalidHeader, Headers |-> h, rest |-> <<>>]
        ELSE IF Len(parts[2]) < 2 THEN [err |-> ErrSliceBounds, Headers |-> h, rest |-> <<>>]
        ELSE ReadHeaders(r.rest,
                 PutHeader(h, parts[1], TrimSpace(Take(parts[2], Len(parts[2]) - 2))))

ReadWholeRest(rest, length) == [body |-> rest, err |-> NoErr]

\* io.ReadFull(r, m.Body) with a body of the given length
ReadBody(rest, length) ==
    IF Len(length.digits) <= SmallDigits /\ Len(rest) >= DigitsValue(length.digits)
    THEN [body |-> Take(rest, DigitsValue(length.digits)), err |-> NoErr]
    ELSE [body |-> <<>>, err |-> ReadFullErr(Len(rest), FALSE, EOF)]

\* ReadMessageBody that takes what is left for the body when no length is given
ReadMessageBodyToEnd(startLine, h, alloc) ==
    IF TextContentLength \notin DOMAIN h.Headers THEN Parsed(startLine, h.Headers, h.rest)
    ELSE LET length == Atoi(h.Headers[TextContentLength])
             body == ReadBody(h.rest, length)
         IN  IF length.err # NoErr THEN Failed(length.err)
             ELSE IF Make(length, alloc) # NoErr THEN Failed(Make(length, alloc))
             ELSE IF body.err # NoErr THEN Failed(body.err)
             ELSE Parsed(startLine, h.Headers, body.body)

\* the part of NewMessage after the header loop
ReadMessageBody(startLine, h, alloc) ==
    IF TextContentLength \notin DOMAIN h.Headers THEN Parsed(startLine, h.Headers, <<>>)
    ELSE LET length == Atoi(h.Headers[TextContentLength])
             body == ReadBody(h.rest, length)
         IN  IF length.err # NoErr THEN Failed(length.err)
             ELSE IF Make(length, alloc) # NoErr THEN Failed(Make(length, alloc))
             ELSE IF body.err # NoErr THEN Failed(body.err)
             ELSE Parsed(startLine, h.Headers, body.body)

NewMessage(req, alloc) ==
    LET first == ReadBytes(req)
        h == ReadHeaders(first.rest, <<>>)
    IN  IF first.err # NoErr THEN Failed(first.err)
        ELSE IF Len(first.line) < 2 THEN Failed(ErrSliceBounds)
        ELSE IF h.err # NoErr THEN Failed(h.err)
        ELSE ReadMessageBody(Take(first.line, Len(first.line) - 2), h, alloc)

\* the decimal numeral of n
RECURSIVE Decimal(_)
Decimal(n) == IF n < 10 THEN <<48 + n>> ELSE Decimal(n \div 10) \o <<48 + (n % 10)>>

\* a header as it is written: name, colon, padding, value, padding, CRLF
Header(name, pre, value, post) ==
    [name |-> name, pre |-> pre, value |-> value, post |-> post]
HeaderLine(h) == h.name \o <<Colon>> \o h.pre \o h.value \o h.post \o CRLF

RECURSIVE HeaderLines(_)
HeaderLines(hs) == IF hs = <<>> THEN <<>> ELSE HeaderLine(Head(hs)) \o HeaderLines(Tail(hs))

\* the buffer of a request written part by part
Render(p) == p.line \o CRLF \o HeaderLines(p.headers) \o CRLF \o p.body

\* "GET / HTTP/1.1" and "POST /a:b HTTP/1.1"
RequestLines == {<<71, 69, 84, 32, 47, 32, 72, 84, 84, 80, 47, 49, 46, 49>>,
                 <<80, 79, 83, 84, 32, 47, 97, 58, 98, 32, 72, 84, 84, 80, 47, 49, 46, 49>>}
\* "Host: a", "X-A:b:c " and "X-E:"
HostHeader == Header(<<72, 111, 115, 116>>, <<32>>, <<97>>, <<>>)
ColonHeader == Header(<<88, 45, 65>>, <<>>, <<98, 58, 99>>, <<32>>)
EmptyHeader == Header(<<88, 45, 69>>, <<>>, <<>>, <<>>)
HeaderLists == {<<>>, <<HostHeader>>, <<ColonHeader, EmptyHeader>>}
\* "", "hi" and "a\r\n:b"
Bodies == {<<>>, <<104, 105>>, <<97, 13, 10, 58, 98>>}
\* values a Content-Length header is sent with
\*   "0"
\*   "1"
\*   "2"
\*   "5"
\*   "7"
\*   "007"
\*   "+2"
\*   "-0"
\*   "-1"
\*   ""
\*   "x"
\*   "2x"
\*   "0x10"
\*   "1e1"
\*   "3000000000"
\*   "281474976710656"
\*   "281474976710657"
\*   "1000000000000000000"
\*   "9223372036854775807"
\*   "9223372036854775808"
\*   "99999999999999999999"
DeclaredLengths ==
    {<<48>>,
     <<49>>,
     <<50>>,
     <<53>>,
     <<55>>,
     <<48, 48, 55>>,
     <<43, 50>>,
     <<45, 48>>,
     <<45, 49>>,
     <<>>,
     <<120>>,
     <<50, 120>>,
     <<48, 120, 49, 48>>,
     <<49, 101, 49>>,
     <<51, 48, 48, 48, 48, 48, 48, 48, 48, 48>>,
     <<50, 56, 49, 52, 55, 52, 57, 55, 54, 55, 49, 48, 54, 53, 54>>,
     <<50, 56, 49, 52, 55, 52, 57, 55, 54, 55, 49, 48, 54, 53, 55>>,
     <<49, 48, 48, 48, 48, 48, 48, 48, 48, 48, 48, 48, 48, 48, 48, 48, 48, 48, 48>>,
     <<57, 50, 50, 51, 51, 55, 50, 48, 51, 54, 56, 53, 52, 55, 55, 53, 56, 48, 55>>,
     <<57, 50, 50, 51, 51, 55, 50, 48, 51, 54, 56, 53, 52, 55, 55, 53, 56, 48, 56>>,
     <<57, 57, 57, 57, 57, 57, 57, 57, 57, 57, 57, 57, 57, 57, 57, 57, 57, 57, 57, 57>>}
ContentLength(v) == Header(TextContentLength, <<32>>, v, <<>>)

\* requests without a Content-Length header, and with one, after or before
\* the other headers
Requests ==
    {[line |-> l, headers |-> hs, body |-> bd] :
        l \in RequestLines, hs \in HeaderLists, bd \in Bodies}
    \cup {[line |-> l, headers |-> Append(hs, ContentLength(v)), body |-> bd] :
        l \in RequestLines, hs \in HeaderLists, bd \in Bodies, v \in DeclaredLengths}
    \cup {[line |-> l, headers |-> <<ContentLength(Decimal(Len(bd)))>> \o hs, body |-> bd] :
        l \in RequestLines, hs \in HeaderLists \ {<<>>}, bd \in Bodies}

Prefixes(s) == {Take(s, k) : k \in 0..Len(s)}

\* buffers no client that keeps to HTTP sends: lines ended by a bare LF, a
\* header without a colon, a header cut right after its colon
CraftedRequests ==
    {<<LF>>,
     <<71, LF>>,
     <<71, 69, 84, 32, 47, 32, 72, 84, 84, 80, 47, 49, 46, 49, 13, 10, 97, 58, 10, 13, 10>>,
     <<71, 69, 84, 32, 47, 32, 72, 84, 84, 80, 47, 49, 46, 49, 13, 10, 10, 13, 10>>,
     <<71, 69, 84, 32, 47, 32, 72, 84, 84, 80, 47, 49, 46, 49, 13, 10, 97, 98, 99, 13, 10, 13, 10>>,
     <<71, 69, 84, 32, 47, 32, 72, 84, 84, 80, 47, 49, 46, 49, 10, 72, 111, 115, 116, 58, 32, 97, 10, 120, 10, 104, 105>>,
     <<71, 69, 84, 32, 47, 32, 72, 84, 84, 80, 47, 49, 46, 49, 13, 10, 67, 111, 110, 116, 101, 110, 116, 45, 76, 101, 110, 103, 116, 104, 58, 50, 13, 10, 67, 111, 110, 116, 101, 110, 116, 45, 76, 101, 110, 103, 116, 104, 58, 32, 49, 13, 10, 13, 10, 104, 105>>,
     <<71, 69, 84, 32, 47, 32, 72, 84, 84, 80, 47, 49, 46, 49, 13, 10, 99, 111, 110, 116, 101, 110, 116, 45, 108, 101, 110, 103, 116, 104, 58, 32, 49, 13, 10, 13, 10, 104, 105>>}

\* what NewMessage is called with: the requests, every buffer that holds only
\* the beginning of one, requests followed by more bytes, and the crafted ones
ParseInputs ==
    UNION {Prefixes(Render(p)) : p \in Requests}
    \cup {Render(p) \o <<122, 122>> : p \in Requests}
    \cup CraftedRequests

ParseInit ==
    /\ Req \in ParseInputs
    /\ allocOk \in BOOLEAN
    /\ parsed = NoResult
    /\ parsePc = "idle"
    /\ WsIdle /\ StoreIdle /\ ServeIdle /\ CodecIdle /\ WriteIdle /\ UpgradeIdle /\ FormIdle /\ RouteIdle /\ RespIdle /\ LockIdle

\* one call of NewMessage
ParseReq ==
    /\ parsePc = "idle"
    /\ parsed' = NewMessage(Req, allocOk)
    /\ parsePc' = "done"
    /\ UNCHANGED <<Req, allocOk>>
    /\ UNCHANGED <<wsVars, storeVars, serveVars, codecVars, writeVars, upgradeVars, formVars, routeVars, respVars, lockVars>>

ParseNext == ParseReq

SpecParse == ParseInit /\ [][ParseNext]_vars

(***************************************************************************)
(* ReadFormData: the multipart form decoder.                               *)
(***************************************************************************)
ErrNoContentType == "no content type"
ErrInvalidContentType == "invalid content type"
ErrInvalidPart == "invalid part format"
ErrNoName == "no name found"

\* "boundary=", "--", ";", "name=", "filename="
TextBoundary == <<98, 111, 117, 110, 100, 97, 114, 121, 61>>
TextDashes == <<45, 45>>
TextSemicolon == <<59>>
TextName == <<110, 97, 109, 101, 61>>
TextFilename == <<102, 105, 108, 101, 110, 97, 109, 101, 61>>
Quote == 34

\* index of the first place sep stands in s, 0 when there is none
Index(s, sep) ==
    LET at == {i \in 1..(Len(s) - Len(sep) + 1) : SubSeq(s, i, i + Len(sep) - 1) = sep}
    IN  IF at = {} THEN 0 ELSE CHOOSE i \in at : \A j \in at : i <= j

\* strings.Split and bytes.Split with a separator that is not empty
RECURSIVE Split(_, _)
Split(s, sep) ==
    LET k == Index(s, sep)
    IN  IF k = 0 THEN <<s>>
        ELSE <<Take(s, k - 1)>> \o Split(Drop(s, k - 1 + Len(sep)), sep)

\* bytes.SplitN(part, []byte("\r\n"), 2)
SplitN2(s, sep) ==
    LET k == Index(s, sep)
    IN  IF k = 0 THEN <<s>> ELSE <<Take(s, k - 1), Drop(s, k - 1 + Len(sep))>>

RECURSIVE TrimQuotesLeft(_)
TrimQuotesLeft(s) == IF s # <<>> /\ Head(s) = Quote THEN TrimQuotesLeft(Tail(s)) ELSE s

RECURSIVE TrimQuotesRight(_)
TrimQuotesRight(s) ==
    IF s # <<>> /\ s[Len(s)] = Quote THEN TrimQuotesRight(Take(s, Len(s) - 1)) ELSE s

\* strings.Trim(s, "\"")
TrimQuotes(s) == TrimQuotesRight(TrimQuotesLeft(s))

\* the loop of parseHeader over the parts between semicolons: the last name=
\* and the last filename= it meets
RECURSIVE HeaderTokens(_, _, _)
HeaderTokens(parts, name, filename) ==
    IF parts = <<>> THEN [name |-> name, filename |-> filename]
    ELSE LET part == TrimSpace(Head(parts))
         IN  IF HasPrefix(part, TextName)
             THEN HeaderTokens(Tail(parts), TrimQuotes(Drop(part, 5)), filename)
             ELSE IF HasPrefix(part, TextFilename)
             THEN HeaderTokens(Tail(parts), name, TrimQuotes(Drop(part, 9)))
             ELSE HeaderTokens(Tail(parts), name, filename)

\* the value of a part with a file name
WithFilename(filename, value) == TrimSpace(filename \o CRLF \o value)

parseHeader(header, value) ==
    LET t == HeaderTokens(Split(header, TextSemicolon), <<>>, <<>>)
    IN  IF t.name = <<>> THEN [name |-> <<>>, value |-> <<>>, err |-> ErrNoName]
        ELSE [name |-> t.name,
              value |-> IF t.filename # <<>> THEN WithFilename(t.filename, value) ELSE value,
              err |-> NoErr]

FormFailed(err) == [nil |-> TRUE, result |-> <<>>, err |-> err]

\* result[key] = value
FormStore(result, key, value) == PutHeader(result, key, value)

\* the loop of ReadFormData over the fragments of the body, the last left out
RECURSIVE ReadParts(_, _)
ReadParts(form, result) ==
    IF Len(form) <= 1 THEN [nil |-> FALSE, result |-> result, err |-> NoErr]
    ELSE LET part == TrimSpace(Head(form))
             subparts == SplitN2(part, CRLF)
             h == parseHeader(subparts[1], Drop(subparts[2], 2))
         IN  IF Len(part) = 0 THEN ReadParts(Tail(form), result)
             ELSE IF Len(subparts) # 2 THEN FormFailed(ErrInvalidPart)
             ELSE IF Len(subparts[2]) < 2 THEN FormFailed(ErrSliceBounds)
             ELSE IF h.err # NoErr THEN FormFailed(h.err)
             ELSE ReadParts(Tail(form), FormStore(result, h.name, h.value))

ReadFormData(m) ==
    LET parts == Split(m.ContentType, TextBoundary)
    IN  IF ~m.hasType THEN FormFailed(ErrNoContentType)
        ELSE IF Len(parts) # 2 THEN FormFailed(ErrInvalidContentType)
        ELSE ReadParts(Split(m.Body, TextDashes \o parts[2]), <<>>)

\* a part as it is sent: the Content-Disposition line with the name and, for
\* a file, the file name; for some files a Content-Type line; an empty line;
\* the content
FormPart(name, filename, typed, content) ==
    [name |-> name, filename |-> filename, typed |-> typed, content |-> content]
\* "Content-Disposition: form-data", "; name=", "; filename=", "Content-Type: text/plain"
TextDisposition == <<67, 111, 110, 116, 101, 110, 116, 45, 68, 105, 115, 112, 111, 115, 105, 116, 105, 111, 110, 58, 32, 102, 111, 114, 109, 45, 100, 97, 116, 97>>
TextTypeLine == <<67, 111, 110, 116, 101, 110, 116, 45, 84, 121, 112, 101, 58, 32, 116, 101, 120, 116, 47, 112, 108, 97, 105, 110>>
PartBytes(p) ==
    TextDisposition
    \o (IF p.name = <<>> THEN <<>> ELSE <<59, 32>> \o TextName \o <<Quote>> \o p.name \o <<Quote>>)
    \o (IF p.filename = <<>> THEN <<>>
        ELSE <<59, 32>> \o TextFilename \o <<Quote>> \o p.filename \o <<Quote>>)
    \o CRLF
    \o (IF p.typed THEN TextTypeLine \o CRLF ELSE <<>>)
    \o CRLF \o p.content \o CRLF

\* "XY", the boundary of the bodies
FormBoundary == <<88, 89>>
RECURSIVE PartsBytes(_)
PartsBytes(ps) ==
    IF ps = <<>> THEN <<>>
    ELSE TextDashes \o FormBoundary \o CRLF \o PartBytes(Head(ps)) \o PartsBytes(Tail(ps))
\* the body of the parts, closed by --XY--
FormBody(ps) == PartsBytes(ps) \o TextDashes \o FormBoundary \o TextDashes \o CRLF

\* names "foo", "bar"; file name "x.txt"; contents "v1", "v2", "data", ""
FormParts ==
    {FormPart(<<102, 111, 111>>, <<>>, FALSE, <<118, 49>>),
     FormPart(<<102, 111, 111>>, <<>>, FALSE, <<118, 50>>),
     FormPart(<<98, 97, 114>>, <<120, 46, 116, 120, 116>>, FALSE, <<100, 97, 116, 97>>),
     FormPart(<<98, 97, 114>>, <<120, 46, 116, 120, 116>>, TRUE, <<100, 97, 116, 97>>),
     FormPart(<<102, 111, 111>>, <<>>, FALSE, <<>>),
     FormPart(<<>>, <<>>, FALSE, <<118, 49>>)}
MaxParts == 2
FormPartLists == UNION {[1..n -> FormParts] : n \in 0..MaxParts}

\* bodies no browser sends: a segment with nothing but one byte after its
\* first line, a segment of one line, no closing delimiter
CraftedBodies ==
    {<<45, 45, 88, 89, 13, 10, 97, 98, 13, 10, 99, 13, 10, 45, 45, 88, 89, 45, 45, 13, 10>>,
     <<45, 45, 88, 89, 13, 10, 97, 98, 13, 10, 45, 45, 88, 89, 45, 45, 13, 10>>,
     <<45, 45, 88, 89, 13, 10, 110, 97, 109, 101, 61, 97, 13, 10, 13, 10, 118, 13, 10>>,
     <<>>}

\* "multipart/form-data; boundary=XY", "multipart/form-data", "text/plain",
\* "boundary=XY; boundary=XY"
FormTypes ==
    {<<109, 117, 108, 116, 105, 112, 97, 114, 116, 47, 102, 111, 114, 109, 45, 100, 97, 116, 97, 59, 32, 98, 111, 117, 110, 100, 97, 114, 121, 61, 88, 89>>,
     <<109, 117, 108, 116, 105, 112, 97, 114, 116, 47, 102, 111, 114, 109, 45, 100, 97, 116, 97>>,
     <<116, 101, 120, 116, 47, 112, 108, 97, 105, 110>>,
     <<98, 111, 117, 110, 100, 97, 114, 121, 61, 88, 89, 59, 32, 98, 111, 117, 110, 100, 97, 114, 121, 61, 88, 89>>}

FormMessages ==
    {[hasType |-> TRUE, ContentType |-> t, Body |-> bd] :
        t \in FormTypes, bd \in {FormBody(ps) : ps \in FormPartLists} \cup CraftedBodies}
    \cup {[hasType |-> FALSE, ContentType |-> <<>>, Body |-> FormBody(ps)] :
        ps \in FormPartLists}

FormInit ==
    /\ formMessage \in FormMessages
    /\ formed = NoForm
    /\ formPc = "idle"
    /\ WsIdle /\ StoreIdle /\ ServeIdle /\ CodecIdle /\ WriteIdle /\ UpgradeIdle /\ ParseIdle /\ RouteIdle /\ RespIdle /\ LockIdle

\* one call of ReadFormData
ReadForm ==
    /\ formPc = "idle"
    /\ formed' = ReadFormData(formMessage)
    /\ formPc' = "done"
    /\ UNCHANGED formMessage
    /\ UNCHANGED <<wsVars, storeVars, serveVars, codecVars, writeVars, upgradeVars, parseVars, routeVars, respVars, lockVars>>

FormNext == ReadForm

SpecForm == FormInit /\ [][FormNext]_vars

(***************************************************************************)
(* Conn.WriteResponse: the bytes of a response.                            *)
(***************************************************************************)
\* "text/plain; charset=utf-8", "text/html; charset=utf-8",
\* "application/json", "application/octet-stream"
TextPlain == <<116, 101, 120, 116, 47, 112, 108, 97, 105, 110, 59, 32, 99, 104, 97, 114, 115, 101, 116, 61, 117, 116, 102, 45, 56>>
TextHtml == <<116, 101, 120, 116, 47, 104, 116, 109, 108, 59, 32, 99, 104, 97, 114, 115, 101, 116, 61, 117, 116, 102, 45, 56>>
TextJson == <<97, 112, 112, 108, 105, 99, 97, 116, 105, 111, 110, 47, 106, 115, 111, 110>>
TextOctets == <<97, 112, 112, 108, 105, 99, 97, 116, 105, 111, 110, 47, 111, 99, 116, 101, 116, 45, 115, 116, 114, 101, 97, 109>>

\* detectContentType without the test for '['
detectContentTypeNoArray(body) ==
    IF Len(body) = 0 THEN TextPlain
    ELSE IF body[1] = 60 THEN TextHtml
    ELSE IF body[1] = 123 THEN TextJson
    ELSE TextOctets

detectContentType(body) ==
    IF Len(body) = 0 THEN TextPlain
    ELSE IF body[1] = 60 THEN TextHtml
    ELSE IF body[1] = 123 \/ body[1] = 91 THEN TextJson
    ELSE TextOctets

\* "HTTP/1.1 ", "Content-Type: ", "Content-Length: ", ": "
TextVersion == <<72, 84, 84, 80, 47, 49, 46, 49, 32>>
TextTypeField == <<67, 111, 110, 116, 101, 110, 116, 45, 84, 121, 112, 101, 58, 32>>
TextLengthField == <<67, 111, 110, 116, 101, 110, 116, 45, 76, 101, 110, 103, 116, 104, 58, 32>>
TextColonSpace == <<58, 32>>

\* the lines "key: value" of the headers, the maps in the order given, the
\* keys of a map in the order the range statement happens to take
RECURSIVE HeaderBytes(_)
HeaderBytes(pairs) ==
    IF pairs = <<>> THEN <<>>
    ELSE Head(pairs)[1] \o TextColonSpace \o Head(pairs)[2] \o CRLF \o HeaderBytes(Tail(pairs))

LengthOfAll(body, pairs) == Len(HeaderBytes(pairs)) + Len(body)

\* len(body), the value of Content-Length
LengthOf(body, pairs) == Len(body)

\* buf of WriteResponse; pairs are the caller's headers in the order written
ResponseBytes(statusCode, statusText, body, pairs) ==
    TextVersion \o Decimal(statusCode) \o <<32>> \o statusText \o CRLF
    \o TextTypeField \o detectContentType(body) \o CRLF
    \o TextLengthField \o Decimal(LengthOf(body, pairs)) \o CRLF
    \o HeaderBytes(pairs)
    \o CRLF
    \o body

\* the orders in which a range statement may take the entries of a map
Orders(header) ==
    {f \in [1..Cardinality(header) -> header] :
        \A i, j \in 1..Cardinality(header) : f[i] = f[j] => i = j}

\* the orders in which the two loops may take the entries of the maps
RECURSIVE HeaderOrders(_)
HeaderOrders(headers) ==
    IF headers = <<>> THEN {<<>>}
    ELSE {first \o rest : first \in Orders(Head(headers)), rest \in HeaderOrders(Tail(headers))}

\* "404 Not Found", "Not Found": what Router.Serve answers with
TextStatus404 == <<52, 48, 52, 32, 78, 111, 116, 32, 70, 111, 117, 110, 100>>
TextNotFound == <<78, 111, 116, 32, 70, 111, 117, 110, 100>>

\* "OK", "Error", "X", "Y", "1", "2", "<p>", "{}", "[1"
TextOK == <<79, 75>>
TextError == <<69, 114, 114, 111, 114>>
TextX == <<88>>
TextY == <<89>>
TextOne == <<49>>
TextTwo == <<50>>
BodyHtml == <<60, 112, 62>>
BodyObject == <<123, 125>>
BodyArray == <<91, 49>>
\* " <p>"
BodySpaceHtml == <<32, 60, 112, 62>>

\* the calls made: statusCode, statusText, body, headers.  A map is the set
\* of its entries.
WriteResponseCall(statusCode, statusText, body, headers) ==
    [statusCode |-> statusCode, statusText |-> statusText, body |-> body, headers |-> headers]
Responses ==
    {WriteResponseCall(200, TextOK, <<>>, <<>>),
     WriteResponseCall(200, TextOK, BodyHtml, <<{<<TextX, TextOne>>}>>),
     WriteResponseCall(404, TextStatus404, TextNotFound, <<>>),
     WriteResponseCall(200, TextOK, BodyObject, <<{<<TextX, TextOne>>, <<TextY, TextTwo>>}>>),
     WriteResponseCall(500, TextError, BodyArray, <<{<<TextX, TextOne>>}, {<<TextX, TextTwo>>}>>),
     WriteResponseCall(200, TextOK, BodySpaceHtml, <<{}, {<<TextY, TextTwo>>}>>)}

IdleResponder == [pc |-> "idle", call |-> WriteResponseCall(0, <<>>, <<>>, <<>>), buf |-> <<>>,
                  err |-> NoErr, calls |-> 0]

MaxResponses == 2

ResponseInit ==
    /\ WsIdle /\ StoreIdle /\ ServeIdle /\ CodecIdle /\ WriteIdle /\ UpgradeIdle /\ ParseIdle /\ FormIdle /\ RouteIdle /\ LockIdle
    /\ responders = [g \in Writers |-> IdleResponder]
    /\ respMu = 0
    /\ respConn = <<>>

\* the calls of WriteResponse made so far
ResponsesBegun ==
    Cardinality({c \in Writers \X (1..MaxResponses) : c[2] <= responders[c[1]].calls})

\* a goroutine calls WriteResponse(statusCode, statusText, body, headers...)
RespBegin(g) ==
    /\ responders[g].pc = "idle"
    /\ ResponsesBegun < MaxResponses
    /\ \E call \in Responses :
          responders' = [responders EXCEPT ![g] =
                            [pc |-> "lock", call |-> call, buf |-> <<>>, err |-> NoErr,
                             calls |-> @.calls + 1]]
    /\ UNCHANGED <<respMu, respConn>>
    /\ UNCHANGED <<wsVars, storeVars, serveVars, codecVars, writeVars, upgradeVars, parseVars, formVars, routeVars, lockVars>>

\* c.mu.Lock()
RespLock(g) ==
    /\ responders[g].pc = "lock"
    /\ respMu = 0
    /\ respMu' = g
    /\ responders' = [responders EXCEPT ![g].pc = "build"]
    /\ UNCHANGED respConn
    /\ UNCHANGED <<wsVars, storeVars, serveVars, codecVars, writeVars, upgradeVars, parseVars, formVars, routeVars, lockVars>>

\* buf filled: status line, Content-Type, Content-Length, the headers in the
\* order the range statements take them, the empty line, the body
RespBuild(g) ==
    /\ responders[g].pc = "build"
    /\ \E pairs \in HeaderOrders(responders[g].call.headers) :
          responders' = [responders EXCEPT
              ![g].pc = "write",
              ![g].buf = ResponseBytes(responders[g].call.statusCode,
                                       responders[g].call.statusText,
                                       responders[g].call.body, pairs)]
    /\ UNCHANGED <<respMu, respConn>>
    /\ UNCHANGED <<wsVars, storeVars, serveVars, codecVars, writeVars, upgradeVars, parseVars, formVars, routeVars, lockVars>>

\* c.Conn.Write(buf.Bytes()): the transport sends all of the buffer and
\* returns nil, or sends less of it and returns an error
RespWrite(g) ==
    /\ responders[g].pc = "write"
    /\ \E n \in {0, Len(responders[g].buf) \div 2, Len(responders[g].buf)} :
          /\ respConn' = Append(respConn,
                [g |-> g, n |-> responders[g].calls, call |-> responders[g].call,
                 buf |-> responders[g].buf, sent |-> n, locked |-> respMu = g])
          /\ responders' = [responders EXCEPT
                ![g].pc = "return",
                ![g].err = IF n = Len(responders[g].buf) THEN NoErr ELSE ErrClosed]
    /\ UNCHANGED respMu
    /\ UNCHANGED <<wsVars, storeVars, serveVars, codecVars, writeVars, upgradeVars, parseVars, formVars, routeVars, lockVars>>

\* the return of err, and the deferred c.mu.Unlock()
RespReturn(g) ==
    /\ responders[g].pc = "return"
    /\ respMu' = 0
    /\ responders' = [responders EXCEPT ![g].pc = "idle"]
    /\ UNCHANGED respConn
    /\ UNCHANGED <<wsVars, storeVars, serveVars, codecVars, writeVars, upgradeVars, parseVars, formVars, routeVars, lockVars>>

ResponseNext ==
    \/ \E g \in Writers : RespBegin(g)
    \/ \E g \in Writers : RespLock(g)
    \/ \E g \in Writers : RespBuild(g)
    \/ \E g \in Writers : RespWrite(g)
    \/ \E g \in Writers : RespReturn(g)

SpecResponse == ResponseInit /\ [][ResponseNext]_vars

(***************************************************************************)
(* Router.HandleFunc, Chain and Router.Serve.  A handler is the closure      *)
(* Chain builds: the middlewares it runs, first to last, each with the rest  *)
(* as its next; the empty one is the stage that does nothing.  A stage gets  *)
(* the Conn by value: its own copy of c.Data, nil or the place of a map.     *)
(***************************************************************************)
\* the methods with TRACE among them
MethodsWithTrace ==
    {<<71, 69, 84>>, <<80, 79, 83, 84>>, <<80, 85, 84>>, <<80, 65, 84, 67, 72>>, <<68, 69, 76, 69, 84, 69>>, <<72, 69, 65, 68>>, <<79, 80, 84, 73, 79, 78, 83>>, <<84, 82, 65, 67, 69>>}

\* the methods HandleFunc registers: GET POST PUT PATCH DELETE HEAD OPTIONS
Methods == {<<71, 69, 84>>, <<80, 79, 83, 84>>, <<80, 85, 84>>, <<80, 65, 84, 67, 72>>, <<68, 69, 76, 69, 84, 69>>, <<72, 69, 65, 68>>, <<79, 80, 84, 73, 79, 78, 83>>}

ComposeForward(middlewares, i, last) == [j \in 1..i |-> middlewares[i + 1 - j]] \o last

\* the loop of Chain from stage i down: last = middlewares[i](last)
RECURSIVE Compose(_, _, _)
Compose(middlewares, i, last) ==
    IF i < 1 THEN last ELSE Compose(middlewares, i - 1, <<middlewares[i]>> \o last)

\* the handler Chain returns, with the no-op stage as the innermost next
Chain(middlewares) == Compose(middlewares, Len(middlewares), <<>>)

\* what a stage does with its c: c.Set, c.Get, next(c)
SetOp(k, v) == [op |-> "Set", key |-> k, val |-> v]
GetOp(k) == [op |-> "Get", key |-> k, val |-> Absent]
NextOp == [op |-> "Next", key |-> "a", val |-> Absent]

\* the middlewares of the program, after those of main.go: one that only
\* calls next, two that store a name and call next, one that reads it and
\* calls next, one that reads it and ends the chain
Middlewares == {"logging", "name", "rename", "print", "hello"}
Program(mw) ==
    CASE mw = "logging" -> <<NextOp>>
      [] mw = "name" -> <<SetOp("a", 1), NextOp>>
      [] mw = "rename" -> <<SetOp("a", 2), NextOp, GetOp("a")>>
      [] mw = "print" -> <<GetOp("a"), NextOp>>
      [] mw = "hello" -> <<GetOp("a"), GetOp("b")>>

MaxStages == 3
Chains == UNION {[1..n -> Middlewares] : n \in 0..MaxStages}

\* "GET", "POST", "TRACE", "/", "/hello", "/t"
Route(method, pattern, middlewares) ==
    [method |-> method, pattern |-> pattern, middlewares |-> middlewares]
RouteTables ==
    {<<Route(<<71, 69, 84>>, <<47>>, <<"hello">>),
       Route(<<80, 79, 83, 84>>, <<47, 104, 101, 108, 108, 111>>, ch),
       Route(<<84, 82, 65, 67, 69>>, <<47, 116>>, <<"logging">>)>> : ch \in Chains}

\* start lines of requests: "GET / HTTP/1.1", "POST /hello HTTP/1.1",
\* "POST /hello/ HTTP/1.1", "TRACE /t HTTP/1.1", "POST /hello", "GET"
RouteLines ==
    {<<71, 69, 84, 32, 47, 32, 72, 84, 84, 80, 47, 49, 46, 49>>,
     <<80, 79, 83, 84, 32, 47, 104, 101, 108, 108, 111, 32, 72, 84, 84, 80, 47, 49, 46, 49>>,
     <<80, 79, 83, 84, 32, 47, 104, 101, 108, 108, 111, 47, 32, 72, 84, 84, 80, 47, 49, 46, 49>>,
     <<84, 82, 65, 67, 69, 32, 47, 116, 32, 72, 84, 84, 80, 47, 49, 46, 49>>,
     <<80, 79, 83, 84, 32, 47, 104, 101, 108, 108, 111>>,
     <<71, 69, 84>>}

RouteInit ==
    /\ WsIdle /\ StoreIdle /\ ServeIdle /\ CodecIdle /\ WriteIdle /\ UpgradeIdle /\ ParseIdle /\ FormIdle /\ RespIdle /\ LockIdle
    /\ routes \in RouteTables
    /\ nreg = 0
    /\ rules = <<>>
    /\ reqLine \in RouteLines
    /\ \/ connData = 0 /\ rheap = <<>>
       \/ connData = 1 /\ rheap = <<EmptyMap>>
       \/ connData = 1 /\ rheap = <<MapStore(EmptyMap, "b", 1)>>
    /\ rstack = <<>>
    /\ rlog = <<>>
    /\ rout = <<>>
    /\ rPc = "register"

\* r.HandleFunc(method, pattern, middlewares...)
HandleFunc ==
    /\ rPc = "register"
    /\ nreg < Len(routes)
    /\ LET r == routes[nreg + 1]
       IN  rules' = IF r.method \in Methods
                    THEN PutHeader(rules, r.method \o <<32>> \o r.pattern, Chain(r.middlewares))
                    ELSE rules
    /\ nreg' = nreg + 1
    /\ UNCHANGED <<routes, reqLine, connData, rstack, rheap, rlog, rout, rPc>>
    /\ UNCHANGED <<wsVars, storeVars, serveVars, codecVars, writeVars, upgradeVars, parseVars, formVars, respVars, lockVars>>

\* a stage as it is called: the closure, the first statement, its copy of c
Stage(handler, data) == [handler |-> handler, pc |-> 1, Data |-> data]

\* Router.Serve up to the call of the handler, or to its return after the 404
ServeRequest ==
    /\ rPc = "register"
    /\ nreg = Len(routes)
    /\ LET lsatInd == LastIndexByte(reqLine, 32)
           key == Take(reqLine, lsatInd - 1)
       IN  IF lsatInd = 0
           THEN /\ rPc' = "panic"
                /\ UNCHANGED <<rstack, rlog, rout>>
           ELSE IF key \notin DOMAIN rules
           THEN /\ rout' = Append(rout, ResponseBytes(404, TextStatus404, TextNotFound, <<>>))
                /\ rPc' = "done"
                /\ UNCHANGED <<rstack, rlog>>
           ELSE /\ rstack' = <<Stage(rules[key], connData)>>
                /\ rlog' = Append(rlog, [ev |-> "handler", key |-> key])
                /\ rPc' = "run"
                /\ UNCHANGED rout
    /\ UNCHANGED <<routes, nreg, rules, reqLine, connData, rheap>>
    /\ UNCHANGED <<wsVars, storeVars, serveVars, codecVars, writeVars, upgradeVars, parseVars, formVars, respVars, lockVars>>

\* the stage that is running, and the statement it is at
RTop == rstack[Len(rstack)]
Body(f) == IF f.handler = <<>> THEN <<>> ELSE Program(Head(f.handler))
AtOp(name) ==
    /\ rPc = "run"
    /\ RTop.pc <= Len(Body(RTop))
    /\ Body(RTop)[RTop.pc].op = name
ROp == Body(RTop)[RTop.pc]

NilTestLeftOut(data) == [Data |-> Len(rheap) + 1, heap |-> Append(rheap, EmptyMap)]

\* c.Data and the maps after the nil test of Set and Get: the map c.Data
\* had, or a new one
NilTest(data) ==
    IF data = 0 THEN [Data |-> Len(rheap) + 1, heap |-> Append(rheap, EmptyMap)]
    ELSE [Data |-> data, heap |-> rheap]

\* c.Set(key, value) in a stage
StageSet ==
    /\ AtOp("Set")
    /\ rheap' = [NilTest(RTop.Data).heap EXCEPT ![NilTest(RTop.Data).Data] =
                    MapStore(NilTest(RTop.Data).heap[NilTest(RTop.Data).Data],
                             ROp.key, ROp.val)]
    /\ rstack' = [rstack EXCEPT ![Len(rstack)] =
                    [RTop EXCEPT !.pc = RTop.pc + 1, !.Data = NilTest(RTop.Data).Data]]
    /\ rlog' = Append(rlog, [ev |-> "set", depth |-> Len(rstack), key |-> ROp.key,
                             val |-> ROp.val])
    /\ UNCHANGED <<routes, nreg, rules, reqLine, connData, rout, rPc>>
    /\ UNCHANGED <<wsVars, storeVars, serveVars, codecVars, writeVars, upgradeVars, parseVars, formVars, respVars, lockVars>>

\* c.Get(key) in a stage
StageGet ==
    /\ AtOp("Get")
    /\ rheap' = NilTest(RTop.Data).heap
    /\ rstack' = [rstack EXCEPT ![Len(rstack)] =
                    [RTop EXCEPT !.pc = RTop.pc + 1, !.Data = NilTest(RTop.Data).Data]]
    /\ LET value == NilTest(RTop.Data).heap[NilTest(RTop.Data).Data][ROp.key]
       IN  rlog' = Append(rlog, [ev |-> "get", depth |-> Len(rstack), key |-> ROp.key,
                                 val |-> value, ok |-> value # Absent])
    /\ UNCHANGED <<routes, nreg, rules, reqLine, connData, rout, rPc>>
    /\ UNCHANGED <<wsVars, storeVars, serveVars, codecVars, writeVars, upgradeVars, parseVars, formVars, respVars, lockVars>>

\* next(c) in a stage: the next closure is called with a copy of c
StageNext ==
    /\ AtOp("Next")
    /\ rstack' = [rstack EXCEPT ![Len(rstack)] = [RTop EXCEPT !.pc = RTop.pc + 1]]
                 \o <<Stage(Tail(RTop.handler), RTop.Data)>>
    /\ rlog' = Append(rlog, [ev |-> "next", depth |-> Len(rstack)])
    /\ UNCHANGED <<routes, nreg, rules, reqLine, connData, rheap, rout, rPc>>
    /\ UNCHANGED <<wsVars, storeVars, serveVars, codecVars, writeVars, upgradeVars, parseVars, formVars, respVars, lockVars>>

\* a stage returns; the return of the first one is the return of Serve
StageReturn ==
    /\ rPc = "run"
    /\ RTop.pc > Len(Body(RTop))
    /\ rstack' = Take(rstack, Len(rstack) - 1)
    /\ rPc' = IF Len(rstack) = 1 THEN "done" ELSE "run"
    /\ UNCHANGED <<routes, nreg, rules, reqLine, connData, rheap, rlog, rout>>
    /\ UNCHANGED <<wsVars, storeVars, serveVars, codecVars, writeVars, upgradeVars, parseVars, formVars, respVars, lockVars>>

RouteNext ==
    \/ HandleFunc
    \/ ServeRequest
    \/ StageSet
    \/ StageGet
    \/ StageNext
    \/ StageReturn

SpecRoute == RouteInit /\ [][RouteNext]_vars

\* The calls of HandleFunc by themselves, keys registered twice and methods
\* HandleFunc does not know among them: GET, DELETE, get and TRACE, with the
\* patterns / and /a.
MaxRoutes == 3
RegisterRoutes ==
    {Route(method, pattern, middlewares) :
        method \in {<<71, 69, 84>>, <<68, 69, 76, 69, 84, 69>>, <<103, 101, 116>>,
                    <<84, 82, 65, 67, 69>>},
        pattern \in {<<47>>, <<47, 97>>},
        middlewares \in {<<>>, <<"hello">>}}

RegisterInit ==
    /\ WsIdle /\ StoreIdle /\ ServeIdle /\ CodecIdle /\ WriteIdle /\ UpgradeIdle /\ ParseIdle /\ FormIdle /\ RespIdle /\ LockIdle
    /\ routes \in UNION {[1..n -> RegisterRoutes] : n \in 0..MaxRoutes}
    /\ nreg = 0
    /\ rules = <<>>
    /\ reqLine = <<>>
    /\ connData = 0
    /\ rheap = <<>>
    /\ rstack = <<>>
    /\ rlog = <<>>
    /\ rout = <<>>
    /\ rPc = "register"

RegisterNext == HandleFunc

SpecRegister == RegisterInit /\ [][RegisterNext]_vars

(***************************************************************************)
(* ReadWebSocketMessage in one goroutine while other goroutines call the   *)
(* functions that take c.mu exclusively.  The reader blocks in its loop    *)
(* until the peer has sent bytes.  Of the other functions only the lock,   *)
(* the section under it and the deferred unlock are kept.                  *)
(***************************************************************************)
Exclusive == {"WriteWebSocketMessage", "WriteResponse", "Set", "UpgradeToWebSocket"}

IdleCaller == [pc |-> "idle", fn |-> ""]

\* the calls made in all, by the reader and the others
MaxLockCalls == 3

LockInit ==
    /\ WsIdle /\ StoreIdle /\ ServeIdle /\ CodecIdle /\ WriteIdle /\ UpgradeIdle /\ ParseIdle /\ FormIdle /\ RouteIdle /\ RespIdle
    /\ cmu = [w |-> 0, r |-> 0]
    /\ reading = [pc |-> "idle", calls |-> 0]
    /\ callers = [g \in Writers |-> IdleCaller]
    /\ critical = <<>>
    /\ inbox = FALSE

LockCalls == reading.calls + Len(critical) + Cardinality({g \in Writers : callers[g].pc = "lock"})

\* the peer sends a frame
PeerSends ==
    /\ ~inbox
    /\ inbox' = TRUE
    /\ UNCHANGED <<cmu, reading, callers, critical>>
    /\ UNCHANGED <<wsVars, storeVars, serveVars, codecVars, writeVars, upgradeVars, parseVars, formVars, routeVars, respVars>>

\* the reader calls ReadWebSocketMessage
ReadBegin ==
    /\ reading.pc = "idle"
    /\ LockCalls < MaxLockCalls
    /\ reading' = [pc |-> "rlock", calls |-> reading.calls + 1]
    /\ UNCHANGED <<cmu, callers, critical, inbox>>
    /\ UNCHANGED <<wsVars, storeVars, serveVars, codecVars, writeVars, upgradeVars, parseVars, formVars, routeVars, respVars>>

\* the reader goes on without c.mu.RLock()
ReadNoRLock ==
    /\ reading.pc = "rlock"
    /\ reading' = [reading EXCEPT !.pc = "loop"]
    /\ UNCHANGED <<cmu, callers, critical, inbox>>
    /\ UNCHANGED <<wsVars, storeVars, serveVars, codecVars, writeVars, upgradeVars, parseVars, formVars, routeVars, respVars>>

\* c.mu.RLock(): waits while the lock is held exclusively
ReadRLock ==
    /\ reading.pc = "rlock"
    /\ cmu.w = 0
    /\ cmu' = [cmu EXCEPT !.r = cmu.r + 1]
    /\ reading' = [reading EXCEPT !.pc = "loop"]
    /\ UNCHANGED <<callers, critical, inbox>>
    /\ UNCHANGED <<wsVars, storeVars, serveVars, codecVars, writeVars, upgradeVars, parseVars, formVars, routeVars, respVars>>

\* readWebSocketFrame returns the final frame once the peer's bytes are there
ReadMessage ==
    /\ reading.pc = "loop"
    /\ inbox
    /\ inbox' = FALSE
    /\ reading' = [reading EXCEPT !.pc = "ret"]
    /\ UNCHANGED <<cmu, callers, critical>>
    /\ UNCHANGED <<wsVars, storeVars, serveVars, codecVars, writeVars, upgradeVars, parseVars, formVars, routeVars, respVars>>

\* the return and the deferred c.mu.RUnlock()
ReadUnlock ==
    /\ reading.pc = "ret"
    /\ cmu' = [cmu EXCEPT !.r = cmu.r - 1]
    /\ reading' = [reading EXCEPT !.pc = "idle"]
    /\ UNCHANGED <<callers, critical, inbox>>
    /\ UNCHANGED <<wsVars, storeVars, serveVars, codecVars, writeVars, upgradeVars, parseVars, formVars, routeVars, respVars>>

\* another goroutine calls one of the functions; Set has tested c.Data
\* against nil by the time it comes to the lock
CallExclusive(g) ==
    /\ callers[g].pc = "idle"
    /\ LockCalls < MaxLockCalls
    /\ \E fn \in Exclusive : callers' = [callers EXCEPT ![g] = [pc |-> "lock", fn |-> fn]]
    /\ UNCHANGED <<cmu, reading, critical, inbox>>
    /\ UNCHANGED <<wsVars, storeVars, serveVars, codecVars, writeVars, upgradeVars, parseVars, formVars, routeVars, respVars>>

\* c.mu.Lock(): waits until no lock of either kind is held; the section
\* under the lock follows
LockExclusive(g) ==
    /\ callers[g].pc = "lock"
    /\ cmu.w = 0 /\ cmu.r = 0
    /\ cmu' = [cmu EXCEPT !.w = g]
    /\ callers' = [callers EXCEPT ![g].pc = "section"]
    /\ critical' = Append(critical, [g |-> g, fn |-> callers[g].fn, reader |-> reading.pc])
    /\ UNCHANGED <<reading, inbox>>
    /\ UNCHANGED <<wsVars, storeVars, serveVars, codecVars, writeVars, upgradeVars, parseVars, formVars, routeVars, respVars>>

\* the return and the deferred c.mu.Unlock()
UnlockExclusive(g) ==
    /\ callers[g].pc = "section"
    /\ cmu' = [cmu EXCEPT !.w = 0]
    /\ callers' = [callers EXCEPT ![g].pc = "idle"]
    /\ UNCHANGED <<reading, critical, inbox>>
    /\ UNCHANGED <<wsVars, storeVars, serveVars, codecVars, writeVars, upgradeVars, parseVars, formVars, routeVars, respVars>>

LockNext ==
    \/ PeerSends
    \/ ReadBegin
    \/ ReadRLock
    \/ ReadMessage
    \/ ReadUnlock
    \/ \E g \in Writers : CallExclusive(g)
    \/ \E g \in Writers : LockExclusive(g)
    \/ \E g \in Writers : UnlockExclusive(g)

SpecLock == LockInit /\ [][LockNext]_vars

(***************************************************************************)
(* What the claims speak of.                                               *)
(***************************************************************************)
ControlOps == {WebSocketFrameOpCodeClose, WebSocketFrameOpCodePing, WebSocketFrameOpCodePong}

\* the result of the current or last ReadWebSocketMessage, from its return statement on
ReadResult ==
    IF Top.fn = "ReadWebSocketMessage" /\ Top.pc = "ret"
    THEN [done |-> TRUE, opCode |-> Top.opCode, payload |-> Top.payload, err |-> Top.err]
    ELSE readRet

IsDataFrame(d) == d.err = NoErr /\ d.op \notin ControlOps
DataFramesRead == SelectSeq(readLog, IsDataFrame)

RECURSIVE Concat(_)
Concat(ds) == IF ds = <<>> THEN <<>> ELSE Head(ds).data \o Concat(Tail(ds))

IsPongWrite(w) == w[1] = WebSocketFrameFinBit + WebSocketFrameOpCodePong
IsCloseWrite(w) == w[1] = WebSocketFrameFinBit + WebSocketFrameOpCodeClose
PongsWritten == SelectSeq(out, IsPongWrite)
WrittenPayload(w) == readWebSocketFrame(w, EOF).data

\* C1: every ping frame ReadWebSocketMessage decodes is answered by exactly one
\* pong frame written to the transport, whose payload is the ping's payload:
\* never more pongs than pings, and the n-th ping leads to the n-th pong.
C1_PingAnsweredByPong ==
    /\ [](Len(PongsWritten) <= Len(pings))
    /\ \A n \in 1..MaxFrames :
          (Len(pings) >= n)
             ~> (Len(PongsWritten) >= n /\ WrittenPayload(PongsWritten[n]) = pings[n])

\* C2: a ping frame neither ends nor stalls ReadWebSocketMessage: when the call
\* has decoded a ping as its first frame and a final data frame f is next in the
\* peer's bytes, that same call returns f's opcode and payload with no error.
PingThenFinalData(f) ==
    /\ Top.fn = "ReadWebSocketMessage" /\ Top.pc = "ping"
    /\ Len(readLog) = 1
    /\ LET d == readWebSocketFrame(Top.buf \o wire, Short) IN
          d.err = NoErr /\ d.fin /\ d.op = f.op /\ d.data = f.data

C2_PingDoesNotStall ==
    \A f \in {g \in PeerFrames : g.fin /\ g.op \in PeerDataOps} :
        PingThenFinalData(f)
           ~> (readRet.done /\ readRet.err = NoErr
               /\ readRet.opCode = f.op /\ readRet.payload = f.data
               /\ Len(readLog) = 2)

\* C3: CloseWebSocket called on an upgraded connection, with a close frame of
\* the peer next on the transport, sends one close frame, then closes the
\* transport, sets the websocket flag to false and returns nil.
CloseCalled ==
    /\ Top.fn = "CloseWebSocket" /\ Top.pc = "lock"
    /\ websocket
    /\ LET d == readWebSocketFrame(wire, Short) IN
          d.err = NoErr /\ d.op = WebSocketFrameOpCodeClose

C3_CloseHandshake ==
    CloseCalled
       ~> (/\ lastRet.fn = "CloseWebSocket" /\ lastRet.err = NoErr
           /\ closed /\ ~websocket
           /\ Len(SelectSeq(out, IsCloseWrite)) = 1)

\* C4: every WebSocketHandleError call on an upgraded connection returns, and by
\* then the transport has been closed.
C4_HandleErrorCloses ==
    (Top.fn = "WebSocketHandleError" /\ Top.pc = "close" /\ websocket)
       ~> (lastRet.fn = "WebSocketHandleError" /\ closed)

\* C5: every failed frame read, the end of the stream before or inside a frame
\* included, is the last frame read of its ReadWebSocketMessage call, and the
\* call returns an error.
C5_FailedReadStops ==
    \A i \in 1..Len(readLog) :
        readLog[i].err # NoErr
           => (i = Len(readLog) /\ ReadResult.done /\ ReadResult.err # NoErr)

\* C9: when ReadWebSocketMessage returns a message, the frame it read last is a
\* data frame with fin set, every data frame it read before has fin clear, and
\* the payload returned is the payloads of the data frames it read, in order.
C9_FragmentsConcatenated ==
    (ReadResult.done /\ ReadResult.err = NoErr)
       => /\ DataFramesRead # <<>>
          /\ readLog[Len(readLog)] = DataFramesRead[Len(DataFramesRead)]
          /\ \A i \in 1..Len(DataFramesRead) :
                DataFramesRead[i].fin <=> (i = Len(DataFramesRead))
          /\ ReadResult.payload = Concat(DataFramesRead)

\* two non-final data frames and a final one, returned as one message of four bytes
C9_Witness ==
    /\ ReadResult.done /\ ReadResult.err = NoErr
    /\ Len(DataFramesRead) = 3
    /\ ReadResult.payload = <<7, 8, 9, 7>>

\* C10: a close frame is the last frame its ReadWebSocketMessage call reads, and
\* the call returns the close opcode, no payload and io.EOF, whatever payload
\* the earlier fragments had accumulated.
C10_CloseStopsRead ==
    \A i \in 1..Len(readLog) :
        (readLog[i].err = NoErr /\ readLog[i].op = WebSocketFrameOpCodeClose)
           => /\ i = Len(readLog)
              /\ ReadResult = [done |-> TRUE, opCode |-> WebSocketFrameOpCodeClose,
                               payload |-> <<>>, err |-> EOF]

\* a close frame read after a non-final fragment, with bytes of the peer still unread
C10_Witness ==
    /\ Len(readLog) = 2
    /\ IsDataFrame(readLog[1]) /\ ~readLog[1].fin /\ readLog[1].data # <<>>
    /\ readLog[2].err = NoErr /\ readLog[2].op = WebSocketFrameOpCodeClose
    /\ ReadResult.done
    /\ wire # <<>>

\* C6: no completed Set is lost and no Get sees a state no Set left: once all
\* calls have returned, every key that was set holds the value of one of its
\* Set calls; a Get that finds a key returns a value a Set of that key stored;
\* and a Get called after a Set of its key has returned finds the key.
C6_NoLostUpdate ==
    /\ (\A g \in Goroutines : gor[g].pc = "idle")
          => \A k \in Keys :
                (\E v \in Values : <<k, v>> \in setsDone)
                   => (Data # 0 /\ <<k, maps[Data][k]>> \in setsDone)
    /\ \A r \in getsDone :
          /\ r.ok => <<r.key, r.val>> \in setsDone
          /\ r.known => r.ok

\* C7: the goroutine started for a connection reads from, answers on and
\* closes that connection only, and answers the message parsed from it.
C7_ConnectionsApart ==
    \A t \in touched :
        /\ t.conn = t.g
        /\ t.what = "answer" => t.msg = t.g

\* C8: a frame written and read back is final and has the opcode and the
\* payload that were written, for each of the lengths 0, 1, 125, 126, 65535
\* and 65536; the length is written in 1 byte under 126, in 126 and 2 bytes
\* up to 65535, and in 127 and 8 bytes above.
C8_RoundTrip ==
    /\ codecPc = "read" =>
          /\ frameOut.err = NoErr
          /\ frameOut.fin
          /\ frameOut.op = frameIn.opCode
          /\ frameOut.data = frameIn.payload
    /\ codecPc # "idle" =>
          Len(frameWire) - Len(frameIn.payload) =
             IF Len(frameIn.payload) < 126 THEN 2
             ELSE IF Len(frameIn.payload) <= MaxUint16 THEN 4 ELSE 10

\* the length field of the frame on the wire is the 64-bit one
WireLen64 == Len(frameWire) >= 10 /\ frameWire[2] % 128 = 127

\* C11: a frame whose 64-bit length, read as the unsigned number on the
\* wire, is over WebSocketMaxPayloadLen is refused with the payload-too-large
\* error, and nothing after the length field is read.
C11_OverCeilingRefused ==
    (codecPc = "read" /\ WireLen64
        /\ BytesGreater(SubSeq(frameWire, 3, 10), WebSocketMaxPayloadLen))
       => (frameOut.err = ErrPayloadTooLarge /\ frameOut.used = 10)

\* the bytes on the transport that one call of one goroutine wrote
SameCall(a, b) == a.g = b.g /\ a.call = b.call

\* C12: the bytes of one WriteWebSocketMessage call lie together on the
\* transport, in the order of the frame and from its first byte, each was
\* sent while its goroutine held the exclusive lock, and a call whose Write
\* has returned nil has its whole frame, header and payload, there.
C12_FramesNotInterleaved ==
    /\ \A i \in 1..Len(transport) :
          /\ transport[i].locked
          /\ IF i > 1 /\ SameCall(transport[i - 1], transport[i])
             THEN transport[i].at = transport[i - 1].at + 1
             ELSE /\ transport[i].at = 1
                  /\ \A j \in 1..(i - 1) : ~SameCall(transport[j], transport[i])
    /\ \A g \in Writers :
          (writers[g].pc = "return" /\ writers[g].err = NoErr) =>
             \E i \in 1..Len(transport) :
                /\ i + Len(writers[g].buf) - 1 <= Len(transport)
                /\ \A k \in 1..Len(writers[g].buf) :
                      /\ transport[i + k - 1].g = g
                      /\ transport[i + k - 1].call = writers[g].calls
                      /\ transport[i + k - 1].byte = writers[g].buf[k]
                /\ writers[g].buf =
                      <<WebSocketFrameFinBit + writers[g].opCode, Len(writers[g].payload)>>
                         \o writers[g].payload

\* one goroutine has sent a frame with its payload, a second has sent the
\* first byte of its frame and not yet the rest, and the first has called
\* again and waits for the lock
C12_Witness ==
    /\ \E i \in 1..Len(transport) : transport[i].g = 1 /\ transport[i].at = 3
    /\ writers[2].pc = "write" /\ writers[2].sent = 1 /\ Len(writers[2].buf) = 3
    /\ transport[Len(transport)].g = 2
    /\ writers[1].pc = "lock"

\* the five checks of the handshake on the message at hand, in their order
HandshakeChecks ==
    <<HasPrefix(upMessage.StartLine, TextGET) /\ HasSuffix(upMessage.StartLine, TextHTTP11),
      upMessage.Headers["Upgrade"] = "websocket",
      upMessage.Headers["Connection"] = "Upgrade",
      upMessage.Headers["Sec-WebSocket-Version"] = "13",
      upMessage.Headers["Sec-WebSocket-Key"] # <<>>>>

\* the first check that fails, 0 when none does
FirstFailing ==
    IF \A i \in 1..5 : HandshakeChecks[i] THEN 0
    ELSE CHOOSE i \in 1..5 :
            ~HandshakeChecks[i] /\ \A j \in 1..(i - 1) : HandshakeChecks[j]

\* C13: the first failing check decides: the unsupported-protocol error
\* exactly when it is the version check, the invalid-handshake error exactly
\* when it is one of the others, and no handshake error when none fails.
C13_FirstFailingDecides ==
    (upPc = "done" /\ ~upMessage.nil) =>
       /\ (upErr = errUnsupportedProtocol) <=> (FirstFailing = 4)
       /\ (upErr = errInvalidHandshake) <=> (FirstFailing \in {1, 2, 3, 5})

\* a call on a request with a bad Upgrade header and a bad version
C13_Witness ==
    /\ upPc = "done" /\ ~upMessage.nil
    /\ FirstFailing = 2
    /\ ~HandshakeChecks[4]
    /\ upErr = errInvalidHandshake

\* C14: the flag is true only after a call in which every check passed and
\* the whole 101 response with its Sec-WebSocket-Accept line was written,
\* nil being returned; when the write fails its error is returned and the
\* flag stays false.
C14_FlagAfterResponse ==
    /\ upFlag =>
          /\ upPc = "done" /\ upErr = NoErr
          /\ ~upMessage.nil /\ FirstFailing = 0
          /\ Len(upOut) = 5
          /\ upOut[1][1] = "HTTP/1.1 101 Switching Protocols"
          /\ upOut[4][1] = "Sec-WebSocket-Accept: " /\ upOut[4][2] # <<>>
          /\ upOut[5] = <<"", <<>>>>
    /\ (upPc = "done" /\ upConn # Healthy /\ ~upMessage.nil /\ FirstFailing = 0) =>
          (upErr = ErrWrite /\ ~upFlag)

\* a call whose checks passed and whose write failed after three lines
C14_Witness ==
    /\ upPc = "done" /\ ~upMessage.nil /\ FirstFailing = 0
    /\ upConn = 3 /\ Len(upOut) = 3

\* "s3pPLMBiTxaQ9kYGzzhZRbK+xOo="
SampleAccept ==
    <<115, 51, 112, 80, 76, 77, 66, 105, 84, 120, 97, 81,
      57, 107, 89, 71, 122, 122, 104, 90, 82, 98, 75, 43, 120, 79, 111, 61>>

\* C15: for the key dGhlIHNhbXBsZSBub25jZQ== the Sec-WebSocket-Accept line of
\* the response written carries s3pPLMBiTxaQ9kYGzzhZRbK+xOo=.
C15_SampleAccept ==
    (upPc = "done" /\ ~upMessage.nil /\ FirstFailing = 0
        /\ upMessage.Headers["Sec-WebSocket-Key"] = SampleKey /\ Len(upOut) >= 4)
       => upOut[4] = <<"Sec-WebSocket-Accept: ", SampleAccept>>

\* the response to the sample key has been written in full
C15_Witness ==
    /\ upPc = "done" /\ upErr = NoErr /\ upFlag
    /\ upMessage.Headers["Sec-WebSocket-Key"] = SampleKey
    /\ Len(upOut) = 5

\* the bytes of the frame on the wire before the mask key or the payload
WireHeaderLen ==
    IF frameWire[2] % 128 = 126 THEN 4 ELSE IF frameWire[2] % 128 = 127 THEN 10 ELSE 2

WireMasked == frameWire[2] >= 128

\* C16: of a frame with the mask bit, payload byte i (from 0) is wire byte i
\* XOR byte i mod 4 of the key that follows the length; of a frame without
\* it, no key is read and the payload is the bytes after the length.
C16_MaskedPayload ==
    (codecPc = "read" /\ frameOut.err = NoErr) =>
       IF WireMasked
       THEN /\ frameOut.used = WireHeaderLen + 4 + Len(frameOut.data)
            /\ \A i \in 0..(Len(frameOut.data) - 1) :
                  frameOut.data[i + 1] =
                     BitXor(frameWire[WireHeaderLen + 4 + i + 1],
                            frameWire[WireHeaderLen + (i % 4) + 1])
       ELSE /\ frameOut.used = WireHeaderLen + Len(frameOut.data)
            /\ frameOut.data =
                  SubSeq(frameWire, WireHeaderLen + 1, WireHeaderLen + Len(frameOut.data))

\* a masked frame of five bytes or more has been decoded
C16_Witness ==
    /\ codecPc = "read" /\ frameOut.err = NoErr
    /\ WireMasked
    /\ Len(frameOut.data) >= 5
    /\ frameOut.data # SubSeq(frameWire, WireHeaderLen + 5, Len(frameWire))

HasLength(p) == \E i \in 1..Len(p.headers) : p.headers[i].name = TextContentLength
Declared(p) ==
    p.headers[CHOOSE i \in 1..Len(p.headers) : p.headers[i].name = TextContentLength].value
WellFormed == {p \in Requests : HasLength(p) /\ Declared(p) = Decimal(Len(p.body))}
\* the headers as sent: each name with its value
HeaderMap(hs) ==
    [n \in {hs[i].name : i \in 1..Len(hs)} |->
        hs[CHOOSE i \in 1..Len(hs) : hs[i].name = n].value]
WellFormedCases ==
    {<<Render(p), [nil |-> FALSE, StartLine |-> p.line,
                   Headers |-> HeaderMap(p.headers), Body |-> p.body]>> :
        p \in WellFormed}

\* C18: of a well-formed request whose Content-Length is the length of its
\* body, NewMessage returns the start line without CRLF, every header with
\* the name before the first colon and the trimmed value after it, and the
\* body byte for byte:
C18_WellFormedParsed ==
    parsePc = "done" =>
        \A c \in WellFormedCases :
            Req = c[1] => parsed.err = NoErr /\ parsed.m = c[2]

C18_Witness ==
    /\ parsePc = "done"
    /\ \E c \in WellFormedCases : Req = c[1]
    /\ Cardinality(DOMAIN parsed.m.Headers) = 3
    /\ Len(parsed.m.Body) > 2

\* a Content-Length value that is a decimal numeral greater than n
DeclaresMore(v, n) ==
    /\ v # <<>>
    /\ \A i \in 1..Len(v) : v[i] \in Digits
    /\ DigitsGreater(TrimZeros(v), TrimZeros(Decimal(n)))

\* buffers whose header section is followed by fewer bytes than declared
TruncatedBuffers ==
    UNION {{Render([p EXCEPT !.body = Take(p.body, k)]) :
                k \in {j \in 0..Len(p.body) : DeclaresMore(Declared(p), j)}} :
           p \in {q \in Requests : HasLength(q)}}

\* C19: when the declared Content-Length is greater than the number of bytes
\* that follow the header section, NewMessage fails with an error and returns
\* no message:
C19_TruncatedBodyFails ==
    (parsePc = "done" /\ Req \in TruncatedBuffers) =>
        /\ parsed.m.nil
        /\ parsed.err # NoErr
        /\ parsed.err \notin Panics

\* an optional sign and one or more decimal digits
IsInteger(v) ==
    LET d == IF v # <<>> /\ v[1] \in {43, 45} THEN Tail(v) ELSE v
    IN  d # <<>> /\ \A i \in 1..Len(d) : d[i] \in Digits
Magnitude(v) == TrimZeros(IF v[1] \in {43, 45} THEN Tail(v) ELSE v)
IsNonNegative(v) == v[1] = 45 => Magnitude(v) = <<>>

\* the bytes of Req after the first empty line
RECURSIVE AfterHeaders(_)
AfterHeaders(s) ==
    IF Len(s) < 4 THEN <<>>
    ELSE IF Take(s, 4) = CRLF \o CRLF THEN Drop(s, 4)
    ELSE AfterHeaders(Tail(s))

\* requests whose Content-Length is not an integer, alone or with more bytes
NotIntegerBuffers ==
    UNION {{Render(p), Render(p) \o <<122, 122>>} :
           p \in {q \in Requests : HasLength(q) /\ ~IsInteger(Declared(q))}}
LengthBuffers ==
    UNION {{Render(p), Render(p) \o <<122, 122>>} :
           p \in {q \in Requests : HasLength(q)}}

\* C20: when NewMessage succeeds on a request with a Content-Length header,
\* the header's value is a non-negative base-10 integer and the body is that
\* many bytes, the first that follow the header section and none beyond
\* them; a Content-Length that is not a base-10 integer makes parsing fail:
C20_BodyHasDeclaredLength ==
    parsePc = "done" =>
        /\ (parsed.err = NoErr /\ TextContentLength \in DOMAIN parsed.m.Headers) =>
              LET v == parsed.m.Headers[TextContentLength]
              IN  /\ IsInteger(v)
                  /\ IsNonNegative(v)
                  /\ Len(Magnitude(v)) <= SmallDigits
                  /\ Len(parsed.m.Body) = DigitsValue(Magnitude(v))
                  /\ Req \in LengthBuffers =>
                        parsed.m.Body = Take(AfterHeaders(Req), DigitsValue(Magnitude(v)))
        /\ Req \in NotIntegerBuffers => parsed.m.nil /\ parsed.err # NoErr

\* a request with bytes beyond the declared length has been parsed
C20_Witness ==
    /\ parsePc = "done"
    /\ parsed.err = NoErr
    /\ TextContentLength \in DOMAIN parsed.m.Headers
    /\ Req \in LengthBuffers
    /\ Len(parsed.m.Body) > 0
    /\ Len(AfterHeaders(Req)) > Len(parsed.m.Body)

\* the Content-Type that names the boundary of the bodies
GoodFormType == CHOOSE t \in FormTypes : Len(Split(t, TextBoundary)) = 2
\* lists of parts that all carry a name
NamedPartLists == {ps \in FormPartLists : \A i \in 1..Len(ps) : ps[i].name # <<>>}
\* what a part stands for: its content, or file name, CRLF and content, trimmed
PartValue(p) ==
    IF p.filename = <<>> THEN p.content ELSE TrimSpace(p.filename \o CRLF \o p.content)
\* the map of the names to the value of the last part of each name
ExpectedForm(ps) ==
    [n \in {ps[i].name : i \in 1..Len(ps)} |->
        PartValue(ps[CHOOSE i \in 1..Len(ps) :
                        ps[i].name = n /\ \A j \in (i + 1)..Len(ps) : ps[j].name # n])]
FormCases ==
    {<<[hasType |-> TRUE, ContentType |-> GoodFormType, Body |-> FormBody(ps)],
       ExpectedForm(ps)>> : ps \in NamedPartLists}

\* C21: of a multipart body delimited by --boundary and closed by
\* --boundary--, ReadFormData returns the map whose keys are the names of the
\* parts, a part without file name standing for its content, a part with one
\* for file name, CRLF and content, trimmed, the later of two parts of one
\* name winning:
C21_FormDecoded ==
    formPc = "done" =>
        \A c \in FormCases :
            formMessage = c[1] => ~formed.nil /\ formed.err = NoErr /\ formed.result = c[2]

\* messages ReadFormData has to refuse: no boundary= in the Content-Type, a
\* segment without name=, a segment that is no header block and value
RefusedForms ==
    {m \in FormMessages :
        \/ ~m.hasType
        \/ Index(m.ContentType, TextBoundary) = 0
        \/ /\ m.ContentType = GoodFormType
           /\ \/ \E ps \in FormPartLists \ NamedPartLists : m.Body = FormBody(ps)
              \/ m.Body \in {b \in CraftedBodies : Index(b, FormBoundary \o TextDashes) # 0}}

\* C22: ReadFormData returns an error and no map, and does not crash, when
\* the Content-Type has no boundary=, when a segment's header block has no
\* name=, or when a segment cannot be split into header block and value, also
\* when less than two bytes follow the segment's first CRLF:
C22_BadFormRefused ==
    (formPc = "done" /\ formMessage \in RefusedForms) =>
        /\ formed.nil
        /\ formed.err # NoErr
        /\ formed.err \notin Panics

\* the start line without its last space-separated token
RouteKey(line) ==
    IF \E i \in 1..Len(line) : line[i] = 32
    THEN Take(line, LastIndexByte(line, 32) - 1)
    ELSE <<>>
\* the keys the calls of HandleFunc made so far have registered
Registered ==
    {routes[i].method \o <<32>> \o routes[i].pattern :
        i \in {j \in 1..nreg : routes[j].method \in Methods}}
HandlerCalls == SelectSeq(rlog, LAMBDA e : e.ev = "handler")
\* "HTTP/1.1 404 "
Text404 == <<72, 84, 84, 80, 47, 49, 46, 49, 32, 52, 48, 52, 32>>
Is404(w) == Len(w) >= Len(Text404) /\ Take(w, Len(Text404)) = Text404

\* C23: for every parsed request Router.Serve either calls once the handler
\* registered under the start line without its last space-separated token, or,
\* when there is none, writes a 404 response and calls no handler; so for
\* every start line, also one without a space:
C23_ServeDispatches ==
    /\ rPc # "panic"
    /\ rPc = "done" =>
          IF RouteKey(reqLine) \in Registered
          THEN /\ Len(HandlerCalls) = 1
               /\ HandlerCalls[1].key = RouteKey(reqLine)
               /\ rout = <<>>
          ELSE /\ HandlerCalls = <<>>
               /\ Len(rout) = 1 /\ Is404(rout[1])

\* the middlewares passed to HandleFunc for the handler that is running
Passed ==
    LET i == CHOOSE j \in 1..nreg :
                 routes[j].method \o <<32>> \o routes[j].pattern = RouteKey(reqLine)
    IN  routes[i].middlewares
\* stage d of the running handler is the d-th middleware passed, and the
\* stage after the last is the one that does nothing
StagesInOrder ==
    rPc = "run" =>
        \A d \in 1..Len(rstack) :
            /\ d <= Len(Passed) + 1
            /\ rstack[d].handler = Drop(Passed, d - 1)
\* a stage begins to run exactly in the step in which the stage before it
\* calls next
StageEntered ==
    (rPc = "run" /\ rPc' = "run") =>
        (Len(rstack') > Len(rstack)) = (RTop.pc <= Len(Body(RTop)) /\ ROp.op = "Next")
\* a handler of no stages does nothing
EmptyChainIdle ==
    (rPc = "done" /\ HandlerCalls # <<>> /\ Passed = <<>>) =>
        /\ Len(rlog) = 1
        /\ rout = <<>>

\* C24: a handler built by Chain runs the stages in the order they were
\* passed to HandleFunc: stage i+1 runs only if and when stage i calls next,
\* the next of the last stage does nothing and can be called, and a chain of
\* no stages does nothing:
C24_ChainInOrder ==
    /\ []StagesInOrder
    /\ [][StageEntered]_vars
    /\ []EmptyChainIdle

\* three different stages are running and the last has called its next
C24_Witness ==
    /\ rPc = "run"
    /\ Len(rstack) = 4
    /\ Len(Passed) = 3
    /\ Passed[1] # Passed[2] /\ Passed[2] # Passed[3] /\ Passed[1] # Passed[3]

\* the place in rlog of the last Set of the key before place t, 0 for none
LastSetBefore(t, key) ==
    LET at == {i \in 1..(t - 1) : rlog[i].ev = "set" /\ rlog[i].key = key}
    IN  IF at = {} THEN 0 ELSE CHOOSE i \in at : \A j \in at : j <= i
\* the Gets of a stage that was reached, through next(c), from the stage
\* that stored the key last
LaterGets ==
    {t \in 1..Len(rlog) :
        /\ rlog[t].ev = "get"
        /\ LastSetBefore(t, rlog[t].key) # 0
        /\ rlog[LastSetBefore(t, rlog[t].key)].depth < rlog[t].depth}

\* C25: in a chain run by Router.Serve, a value stored with Set(k, v) in one
\* stage is what Get(k) returns, with true, in every later stage reached
\* through next(c), also when c.Data was nil before that Set:
C25_SetSeenByLaterStages ==
    \A t \in LaterGets :
        /\ rlog[t].ok
        /\ rlog[t].val = rlog[LastSetBefore(t, rlog[t].key)].val

\* a later stage has read a value stored on a Conn whose Data was nil
C25_Witness ==
    /\ connData = 0
    /\ \E t \in LaterGets : rlog[t].depth >= 3 /\ rlog[t].val = 2

\* what the keys of the Conn hold: nothing while c.Data is nil
Content == IF Data = 0 THEN EmptyMap ELSE maps[Data]
\* the goroutine whose Set or Get returns in this step
Returns(g, op) == gor[g].pc = "locked" /\ gor[g].op = op /\ gor'[g].pc = "idle"
\* Set(k, v) leaves k at v and every other key as it was; no other step, so
\* no Get, changes a key
SetsOneKey ==
    IF \E g \in Goroutines : Returns(g, "Set")
    THEN \A g \in Goroutines :
            Returns(g, "Set") => Content' = [Content EXCEPT ![gor[g].key] = gor[g].val]
    ELSE Content' = Content
\* Get(k) returns what k holds, with true, or nil with false when it holds
\* nothing
GetsTheKey ==
    \A g \in Goroutines :
        Returns(g, "Get") =>
            \E r \in getsDone' :
                /\ r.key = gor[g].key
                /\ r.val = Content[gor[g].key]
                /\ r.ok = (Content[gor[g].key] # Absent)
\* a Get never returns a value no Set stored, nor nothing for a key that was set
GetsWhatWasSet ==
    \A r \in getsDone :
        /\ r.ok => <<r.key, r.val>> \in setsDone
        /\ r.ok = r.known
        /\ ~r.ok => r.val = Absent

\* C26: after any sequential series of Set calls on one Conn, Get(k) returns
\* (v, true) with v the value of the most recent Set(k, .), and (nil, false)
\* when k was never set; Set(k, v) changes no other key and Get changes none:
C26_SequentialSetGet ==
    /\ [][SetsOneKey /\ GetsTheKey]_vars
    /\ []GetsWhatWasSet

\* a key was set twice, to two values, and read
C26_Witness ==
    \E r \in getsDone :
        /\ r.ok
        /\ \A v \in Values : <<r.key, v>> \in setsDone
        /\ \E q \in getsDone : ~q.ok

\* the lines, each ended by CRLF
RECURSIVE Lines(_)
Lines(ls) == IF ls = <<>> THEN <<>> ELSE Head(ls) \o CRLF \o Lines(Tail(ls))
\* the response laid out as its lines and the body, for a Content-Type t and
\* the caller's headers taken in the order pairs
Layout(call, t, pairs) ==
    Lines(<<TextVersion \o Decimal(call.statusCode) \o <<32>> \o call.statusText,
            TextTypeField \o t,
            TextLengthField \o Decimal(Len(call.body))>>
          \o [i \in 1..Len(pairs) |-> pairs[i][1] \o TextColonSpace \o pairs[i][2]]
          \o << <<>> >>)
    \o call.body
\* the calls of c.Conn.Write made by call n of goroutine g
WritesOf(g, n) == {i \in 1..Len(respConn) : respConn[i].g = g /\ respConn[i].n = n}

\* C27: WriteResponse writes, in one transport write made under the exclusive
\* lock, the status line "HTTP/1.1 <code> <text>", then Content-Type, then
\* Content-Length with the byte length of the body, then every header of the
\* caller, then an empty line, then the body unchanged:
C27_ResponseLayout ==
    /\ \A i \in 1..Len(respConn) :
          /\ respConn[i].locked
          /\ \E t \in {TextPlain, TextHtml, TextJson, TextOctets},
                pairs \in HeaderOrders(respConn[i].call.headers) :
                respConn[i].buf = Layout(respConn[i].call, t, pairs)
    /\ \A g \in Writers :
          /\ \A n \in 1..responders[g].calls :
                Cardinality(WritesOf(g, n)) =
                    IF n = responders[g].calls /\ responders[g].pc \in {"lock", "build", "write"}
                    THEN 0 ELSE 1
          /\ responders[g].pc = "write" =>
                \E pairs \in HeaderOrders(responders[g].call.headers) :
                    responders[g].buf =
                        Layout(responders[g].call, detectContentType(responders[g].call.body), pairs)

\* two responses were written whole, one of them with two headers of one map,
\* the second before the first
C27_Witness ==
    /\ Len(respConn) = 2
    /\ \A i \in 1..2 : respConn[i].sent = Len(respConn[i].buf)
    /\ \E i \in 1..2 :
          /\ respConn[i].call.body = BodyObject
          /\ respConn[i].buf =
                Layout(respConn[i].call, TextJson, <<<<TextY, TextTwo>>, <<TextX, TextOne>>>>)

\* C28: the opcode ReadWebSocketMessage returns with a message is the opcode of
\* the first data frame it read for it, whatever the later frames carry, and
\* also when that first frame carries opcode 0.
C28_FirstOpcodeReturned ==
    (ReadResult.done /\ ReadResult.err = NoErr)
       => /\ DataFramesRead # <<>>
          /\ ReadResult.opCode = DataFramesRead[1].op

\* C29: a ReadWebSocketMessage call that returns a message leaves no bytes of
\* the peer behind in its reader: what it took from the transport beyond the
\* message is there for the next call, so every frame is decoded once, in order.
C29_NoBytesDropped ==
    (Top.fn = "ReadWebSocketMessage" /\ Top.pc = "ret" /\ Top.err = NoErr)
       => Top.buf = <<>>

\* the first Read on connection k has returned, with the request or an error
ReadReturned(k) == \E t \in touched : t.what = "read" /\ t.conn = k

\* C30: every accepted connection whose first read has returned, with bytes or
\* with an error, is closed in the end, also when the read fails or the
\* request does not parse.
C30_EventuallyClosed ==
    \A k \in 1..MaxConns :
        (k <= Len(conns) /\ ReadReturned(k)) ~> (k <= Len(conns) /\ conns[k].closed)

\* C31: a call of UpgradeToWebSocket that returns a validation error, the one
\* for a missing request message included, has written nothing to the
\* transport and leaves the upgraded flag as it was.
C31_FailedUpgradeChangesNothing ==
    [][(upPc = "idle" /\ upPc' = "done"
          /\ upErr' \in {errInvalidHandshake, errUnsupportedProtocol})
         => (upOut' = <<>> /\ upOut' = upOut /\ upFlag' = upFlag
               /\ upMessage' = upMessage)]_vars

\* a call without a request message on a connection upgraded before
C31_Witness ==
    /\ upPc = "done" /\ upMessage.nil
    /\ upErr = errInvalidHandshake
    /\ upFlag /\ upOut = <<>>

\* the functions that test IsWebSocket under the lock
Guarded == {"ReadWebSocketMessage", "WriteWebSocketMessage", "CloseWebSocket"}

\* C32: on a connection that is not upgraded ReadWebSocketMessage,
\* WriteWebSocketMessage and CloseWebSocket return the error "not a websocket
\* connection", and nothing is read from or written to the transport.
C32_NotUpgradedRefused ==
    /\ [][~websocket => (wire' = wire /\ out' = out /\ closed' = closed)]_vars
    /\ [](~websocket =>
            /\ (Top.fn \in Guarded /\ Top.pc = "ret") => Top.err = ErrNotWebSocket
            /\ Top.fn \in Guarded => Top.pc \in {"lock", "rlock", "body", "check", "ret"}
            /\ Top.buf = <<>>)

\* WriteWebSocketMessage and then CloseWebSocket have refused, with bytes of
\* the peer waiting
C32_Witness ==
    /\ ~websocket
    /\ lastRet.fn = "WriteWebSocketMessage" /\ lastRet.err = ErrNotWebSocket
    /\ Top.fn = "CloseWebSocket" /\ Top.pc = "ret" /\ Top.err = ErrNotWebSocket
    /\ wire # <<>> /\ out = <<>>

\* the reader is in ReadWebSocketMessage past its RLock
InRead == reading.pc \in {"loop", "ret"}

\* C33: ReadWebSocketMessage holds the shared lock from its RLock to its
\* return, also while it waits for bytes of the peer, so no goroutine is in
\* the section under the exclusive lock of WriteWebSocketMessage,
\* WriteResponse, Set or UpgradeToWebSocket during a read, and such a section
\* begins only when no read is under way.
C33_ReadExcludesWriters ==
    /\ InRead => cmu.r >= 1 /\ cmu.w = 0
    /\ \A g \in Writers : callers[g].pc = "section" => (~InRead /\ cmu.w = g)
    /\ \A i \in 1..Len(critical) : critical[i].reader \in {"idle", "rlock"}

\* a section has run, and now the reader waits for bytes while another
\* goroutine waits for the lock
C33_Witness ==
    /\ Len(critical) >= 1
    /\ reading.pc = "loop" /\ ~inbox
    /\ \E g \in Writers : callers[g].pc = "lock" /\ callers[g].fn = "WriteWebSocketMessage"

\* the step is the reading of a pong frame
PongRead ==
    /\ Len(readLog') = Len(readLog) + 1
    /\ readLog'[Len(readLog')].err = NoErr
    /\ readLog'[Len(readLog')].op = WebSocketFrameOpCodePong

\* C34: a pong frame read by ReadWebSocketMessage is dropped wherever it
\* comes, between the fragments of a message too: the payload gathered and the
\* opcode of the message stay as they are, the call goes on to the next frame
\* and nothing is written.
C34_PongDiscarded ==
    [][PongRead =>
         /\ Top'.fn = "ReadWebSocketMessage" /\ Top'.pc = "loop"
         /\ Top'.payload = Top.payload
         /\ Top'.opCode = Top.opCode
         /\ Len(stack') = Len(stack)
         /\ out' = out]_vars

\* a message of two fragments with a pong between them has been returned
C34_Witness ==
    /\ Len(readLog) = 3
    /\ IsDataFrame(readLog[1]) /\ ~readLog[1].fin
    /\ readLog[2].err = NoErr /\ readLog[2].op = WebSocketFrameOpCodePong
    /\ IsDataFrame(readLog[3]) /\ readLog[3].fin
    /\ Top.fn = "ReadWebSocketMessage" /\ Top.pc = "ret" /\ Top.err = NoErr
    /\ Top.opCode = WebSocketFrameOpCodeBinary
    /\ Top.payload = <<7, 7>>
    /\ out = <<>>

\* C35: a frame written by WriteWebSocketMessage for an opcode of 0 .. 15 has
\* the first byte 0x80 | opcode, the mask bit of the second byte clear, and
\* after its length field the caller's payload, byte for byte, and no more.
C35_WrittenFrameLayout ==
    codecPc # "idle" =>
       /\ frameWire[1] = WebSocketFrameFinBit + frameIn.opCode
       /\ ~WireMasked
       /\ Len(frameWire) = WireHeaderLen + Len(frameIn.payload)
       /\ SubSeq(frameWire, WireHeaderLen + 1, Len(frameWire)) = frameIn.payload

\* the lines of a buffer that end with LF, in order
RECURSIVE LinesOf(_)
LinesOf(s) ==
    IF ReadBytes(s).err # NoErr THEN <<>>
    ELSE <<ReadBytes(s).line>> \o LinesOf(ReadBytes(s).rest)
\* the place of the first line after the start line that is exactly CRLF, or
\* one past the last line when there is none
HeaderEnd(ls) ==
    IF \E i \in 2..Len(ls) : ls[i] = CRLF
    THEN CHOOSE i \in 2..Len(ls) : ls[i] = CRLF /\ \A j \in 2..(i - 1) : ls[j] # CRLF
    ELSE Len(ls) + 1
NoColon(line) == \A i \in 1..Len(line) : line[i] # Colon

\* C36: a line without a colon between the start line and the line that ends
\* the headers makes NewMessage fail, and NewMessage takes the headers to end
\* only at a line that is exactly CRLF.
C36_HeaderLinesChecked ==
    parsePc = "done" =>
       LET ls == LinesOf(Req) IN
       /\ (\E i \in 2..(HeaderEnd(ls) - 1) : NoColon(ls[i])) => parsed.err # NoErr
       /\ parsed.err = NoErr =>
             /\ HeaderEnd(ls) <= Len(ls)
             /\ DOMAIN parsed.m.Headers =
                   {SplitN(ls[i])[1] : i \in 2..(HeaderEnd(ls) - 1)}

EndsWithCRLF(line) == Len(line) >= 2 /\ SubSeq(line, Len(line) - 1, Len(line)) = CRLF
\* the bytes of the first n lines
RECURSIVE LinesLen(_, _)
LinesLen(ls, n) == IF n = 0 THEN 0 ELSE Len(ls[n]) + LinesLen(ls, n - 1)
\* the buffer is a start line, header lines name:value, none of them named
\* Content-Length, and the empty line, every line ended by CRLF
NoLengthDeclared ==
    LET ls == LinesOf(Req) IN
    /\ HeaderEnd(ls) <= Len(ls)
    /\ \A i \in 1..(HeaderEnd(ls) - 1) : EndsWithCRLF(ls[i])
    /\ \A i \in 2..(HeaderEnd(ls) - 1) :
          ~NoColon(ls[i]) /\ SplitN(ls[i])[1] # TextContentLength
\* the bytes of the buffer after the empty line
Following == Len(Req) - LinesLen(LinesOf(Req), HeaderEnd(LinesOf(Req)))

SevenMethods ==
    {<<71, 69, 84>>, <<80, 79, 83, 84>>, <<80, 85, 84>>, <<80, 65, 84, 67, 72>>,
     <<68, 69, 76, 69, 84, 69>>, <<72, 69, 65, 68>>, <<79, 80, 84, 73, 79, 78, 83>>}
\* the call of HandleFunc this step makes
Registering == routes[nreg + 1]
KeyOf(r) == r.method \o <<32>> \o r.pattern

\* C38: HandleFunc(method, pattern, ...) stores the handler under the key
\* "method pattern" when the method is GET, POST, PUT, PATCH, DELETE, HEAD or
\* OPTIONS and leaves every other key as it was, a key registered before is
\* given the new handler, and for any other method the table is left as it was.
C38_HandleFuncStores ==
    [][nreg' = nreg + 1 =>
         IF Registering.method \in SevenMethods
         THEN /\ DOMAIN rules' = DOMAIN rules \cup {KeyOf(Registering)}
              /\ rules'[KeyOf(Registering)] = Registering.middlewares
              /\ \A k \in DOMAIN rules \ {KeyOf(Registering)} : rules'[k] = rules[k]
         ELSE rules' = rules]_vars

\* GET / registered, a call with the method get that left the table alone, and
\* GET / registered again with another handler, which took the place of the first
C38_Witness ==
    /\ nreg = 3 /\ Len(routes) = 3
    /\ KeyOf(routes[1]) = KeyOf(routes[3])
    /\ routes[1].method = <<71, 69, 84>>
    /\ routes[2].method = <<103, 101, 116>>
    /\ routes[1].middlewares # routes[3].middlewares
    /\ DOMAIN rules = {KeyOf(routes[1])}
    /\ rules[KeyOf(routes[1])] = routes[3].middlewares

\* the Content-Type line of a response: its second line
TypeLine(buf) == ReadBytes(ReadBytes(buf).rest).line
TypeLineOf(t) == TextTypeField \o t \o CRLF

\* C39: the Content-Type WriteResponse writes is decided by the first byte of
\* the body alone: text/plain; charset=utf-8 for an empty body, text/html;
\* charset=utf-8 for a first byte '<', application/json for '{' or '[', and
\* application/octet-stream for every other body.
C39_TypeByFirstByte ==
    \A i \in 1..Len(respConn) :
        LET body == respConn[i].call.body
        IN  TypeLine(respConn[i].buf) =
                TypeLineOf(IF body = <<>> THEN TextPlain
                           ELSE IF body[1] = 60 THEN TextHtml
                           ELSE IF body[1] \in {123, 91} THEN TextJson
                           ELSE TextOctets)

\* a body that begins with '[' written as JSON, and one with '<' after a
\* space written as octets
C39_Witness ==
    /\ Len(respConn) = 2
    /\ respConn[1].call.body = BodyArray
    /\ TypeLine(respConn[1].buf) = TypeLineOf(TextJson)
    /\ respConn[2].call.body = BodySpaceHtml
    /\ TypeLine(respConn[2].buf) = TypeLineOf(TextOctets)

=============================================================================
